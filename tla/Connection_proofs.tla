------------------------- MODULE Connection_proofs -------------------------
(***************************************************************************)
(* For sockets, buffers, blocks and timeouts of any size: no block that a  *)
(* node asks for is lost, repeated or overtaken while both ends are open,  *)
(* the buffers stay bounded, and a connection of a working network expires *)
(* only when both nodes wait for each other to read.                       *)
(***************************************************************************)
EXTENDS Connection, SequenceTheorems, WellFoundedInduction, TLAPS

-----------------------------------------------------------------------------
(* Induction, and the concatenation of a sequence of sequences             *)

\* The least member of a set of natural numbers, ...
LEMMA LeastNat ==
    ASSUME NEW T, T \subseteq Nat, T # {}
    PROVE  \E x \in T : \A y \in T : x <= y
<1> DEFINE R == {ss \in Nat \X Nat : ss[1] < ss[2]}
<1>1. IsWellFoundedOn(R, Nat)
  BY NatLessThanWellFounded, Zenon DEF OpToRel
<1> HIDE DEF R
<1>2. PICK x \in T : \A y \in T : ~(<<y, x>> \in R)
  BY <1>1, WFMin, Zenon
<1>3. ASSUME NEW y \in T PROVE x <= y
  <2>1. ~(<<y, x>> \in R)
    BY <1>2
  <2> QED  BY <2>1 DEF R
<1> QED  BY <1>2, <1>3

\* ... and with it induction, for a set in place of a predicate.
LEMMA SetInduction ==
    ASSUME NEW S, 0 \in S, \A n \in Nat : n \in S => n + 1 \in S
    PROVE  Nat \subseteq S
<1> DEFINE T == Nat \ S
<1>1. SUFFICES ASSUME T # {} PROVE FALSE
  OBVIOUS
<1>2. PICK x \in T : \A y \in T : x <= y
  BY <1>1, LeastNat
<1>3. x \in Nat /\ x # 0 /\ x - 1 \in Nat /\ x - 1 \in S
  BY <1>2
<1>4. (x - 1) + 1 \in S
  BY <1>3
<1> QED  BY <1>2, <1>3, <1>4

\* The partial concatenations of s, which FlattenSeq computes.
Partial(s, f) == \A i \in 1..Len(s) : f[i] = IF i = 1 THEN s[1] ELSE f[i - 1] \o s[i]

LEMMA PartialExists ==
    ASSUME NEW T, NEW s \in Seq(Seq(T)), s # <<>>
    PROVE  \E f : /\ Partial(s, f) /\ FlattenSeq(s) = f[Len(s)]
                  /\ \A i \in 1..Len(s) : f[i] \in Seq(T)
<1> DEFINE Cat(v, i) == v \o s[i]
           S == {m \in Nat : \E g : g = [i \in 1..(m + 1) |-> IF i = 1 THEN s[i] ELSE Cat(g[i - 1], i)]}
           F == CHOOSE g : g = [i \in 1..Len(s) |-> IF i = 1 THEN s[i] ELSE g[i - 1] \o s[i]]
<1> HIDE DEF Cat
<1>0. Len(s) \in Nat \ {0}
  BY EmptySeq
<1>1. 0 \in S
  <2> DEFINE g == [i \in 1..(0 + 1) |-> s[i]]
  <2>1. g = [i \in 1..(0 + 1) |-> IF i = 1 THEN s[i] ELSE Cat(g[i - 1], i)]
    OBVIOUS
  <2> QED  BY <2>1
<1>2. ASSUME NEW m \in Nat, m \in S PROVE m + 1 \in S
  <2>1. PICK g : g = [i \in 1..(m + 1) |-> IF i = 1 THEN s[i] ELSE Cat(g[i - 1], i)]
    BY <1>2
  <2> DEFINE f == [i \in 1..((m + 1) + 1) |-> IF i = m + 2 THEN Cat(g[m + 1], i) ELSE g[i]]
  <2>2. ASSUME NEW i \in 1..((m + 1) + 1) PROVE f[i] = IF i = 1 THEN s[i] ELSE Cat(f[i - 1], i)
    BY <2>1
  <2>3. f = [i \in 1..((m + 1) + 1) |-> f[i]]
    OBVIOUS
  <2> HIDE DEF f
  <2>4. f = [i \in 1..((m + 1) + 1) |-> IF i = 1 THEN s[i] ELSE Cat(f[i - 1], i)]
    BY <2>2, <2>3
  <2>5. m + 1 \in Nat
    OBVIOUS
  <2> QED  BY <2>4, <2>5, Zenon
<1>3. Len(s) - 1 \in S
  <2> HIDE DEF S
  <2>1. Nat \subseteq S
    BY <1>1, <1>2, SetInduction
  <2>2. Len(s) - 1 \in Nat
    BY <1>0
  <2> QED  BY <2>1, <2>2
<1>4. \E g : g = [i \in 1..Len(s) |-> IF i = 1 THEN s[i] ELSE g[i - 1] \o s[i]]
  <2>1. (Len(s) - 1) + 1 = Len(s)
    BY <1>0
  <2>2. \E g : g = [i \in 1..Len(s) |-> IF i = 1 THEN s[i] ELSE Cat(g[i - 1], i)]
    BY <1>3, <2>1, Zenon
  <2> QED  BY <2>2, Zenon DEF Cat
<1>5. F = [i \in 1..Len(s) |-> IF i = 1 THEN s[i] ELSE F[i - 1] \o s[i]]
  BY <1>4, Zenon
<1>6. FlattenSeq(s) = F[Len(s)]
  BY <1>0 DEF FlattenSeq
<1> HIDE DEF F
<1>7. Partial(s, F)
  <2>1. ASSUME NEW i \in 1..Len(s) PROVE F[i] = IF i = 1 THEN s[i] ELSE F[i - 1] \o s[i]
    BY <1>5, Zenon
  <2> QED  BY <2>1 DEF Partial
<1>8. \A i \in 1..Len(s) : F[i] \in Seq(T)
  <2> DEFINE N == {m \in Nat : m + 1 <= Len(s) => F[m + 1] \in Seq(T)}
  <2>1. 0 \in N
    BY <1>0, <1>7, ElementOfSeq DEF Partial
  <2>2. ASSUME NEW m \in Nat, m \in N PROVE m + 1 \in N
    <3> SUFFICES ASSUME (m + 1) + 1 <= Len(s) PROVE F[(m + 1) + 1] \in Seq(T)
      OBVIOUS
    <3>1. F[m + 1] \in Seq(T)
      BY <1>0, <2>2
    <3>2. (m + 1) + 1 \in 1..Len(s) /\ (m + 1) + 1 # 1 /\ ((m + 1) + 1) - 1 = m + 1
      BY <1>0
    <3>3. F[(m + 1) + 1] = F[m + 1] \o s[(m + 1) + 1]
      BY <1>7, <3>2 DEF Partial
    <3>4. s[(m + 1) + 1] \in Seq(T)
      BY <3>2, ElementOfSeq
    <3> QED  BY <3>1, <3>3, <3>4, ConcatProperties
  <2> HIDE DEF N
  <2>3. Nat \subseteq N
    BY <2>1, <2>2, SetInduction
  <2>4. ASSUME NEW i \in 1..Len(s) PROVE F[i] \in Seq(T)
    <3>1. i - 1 \in N /\ (i - 1) + 1 = i /\ i <= Len(s)
      BY <2>3, <1>0
    <3> QED  BY <3>1 DEF N
  <2> QED  BY <2>4
<1> QED  BY <1>6, <1>7, <1>8

LEMMA FlattenAppend ==
    ASSUME NEW T, NEW s \in Seq(Seq(T)), NEW x \in Seq(T)
    PROVE  /\ FlattenSeq(s) \in Seq(T)
           /\ FlattenSeq(Append(s, x)) = FlattenSeq(s) \o x
<1> DEFINE a == Append(s, x)
<1>1. /\ a \in Seq(Seq(T)) /\ a # <<>> /\ Len(a) = Len(s) + 1 /\ Len(s) \in Nat
      /\ \A i \in 1..Len(s) : a[i] = s[i]
      /\ a[Len(s) + 1] = x
  BY AppendProperties, LenProperties
<1> HIDE DEF a
<1>2. PICK g : Partial(a, g) /\ FlattenSeq(a) = g[Len(a)]
  BY <1>1, PartialExists
<1>3. CASE s = <<>>
  <2>1. Len(s) = 0 /\ FlattenSeq(s) = <<>>
    BY <1>3, EmptySeq DEF FlattenSeq
  <2>2. g[Len(a)] = x
    BY <1>1, <1>2, <2>1 DEF Partial
  <2> QED  BY <1>2, <2>1, <2>2, EmptySeq, ConcatEmptySeq DEF a
<1>4. CASE s # <<>>
  <2>1. PICK f : /\ Partial(s, f) /\ FlattenSeq(s) = f[Len(s)]
                 /\ \A i \in 1..Len(s) : f[i] \in Seq(T)
    BY <1>4, PartialExists
  <2>2. Len(s) \in Nat \ {0}
    BY <1>4, EmptySeq
  <2> DEFINE N == {m \in Nat : m + 1 <= Len(s) => f[m + 1] = g[m + 1]}
  <2>3. 0 \in N
    BY <1>1, <1>2, <2>1, <2>2 DEF Partial
  <2>4. ASSUME NEW m \in Nat, m \in N PROVE m + 1 \in N
    <3> SUFFICES ASSUME (m + 1) + 1 <= Len(s) PROVE f[(m + 1) + 1] = g[(m + 1) + 1]
      OBVIOUS
    <3> DEFINE j == (m + 1) + 1
    <3>1. f[m + 1] = g[m + 1]
      BY <2>2, <2>4
    <3>2. j \in 1..Len(s) /\ j \in 1..Len(a) /\ j # 1 /\ j - 1 = m + 1
      BY <1>1, <2>2
    <3> HIDE DEF j
    <3>3. f[j] = f[j - 1] \o s[j] /\ g[j] = g[j - 1] \o a[j]
      BY <1>2, <2>1, <3>2 DEF Partial
    <3>4. f[j] = g[j]
      BY <1>1, <3>1, <3>2, <3>3
    <3> QED  BY <3>4 DEF j
  <2> HIDE DEF N
  <2>5. Len(s) - 1 \in N
    <3>1. Nat \subseteq N
      BY <2>3, <2>4, SetInduction
    <3>2. Len(s) - 1 \in Nat
      BY <2>2
    <3> QED  BY <3>1, <3>2
  <2>6. f[Len(s)] = g[Len(s)]
    <3>1. (Len(s) - 1) + 1 = Len(s)
      BY <2>2
    <3> QED  BY <2>2, <2>5, <3>1 DEF N
  <2>7. g[Len(a)] = g[Len(s)] \o x
    <3>1. Len(a) \in 1..Len(a) /\ Len(a) # 1 /\ Len(a) - 1 = Len(s) /\ a[Len(a)] = x
      BY <1>1, <2>2
    <3> QED  BY <1>2, <3>1 DEF Partial
  <2>8. f[Len(s)] \in Seq(T)
    BY <2>1, <2>2
  <2> QED  BY <1>2, <2>1, <2>6, <2>7, <2>8 DEF a
<1> QED  BY <1>3, <1>4

LEMMA FlattenEmpty == FlattenSeq(<<>>) = <<>>
  BY EmptySeq DEF FlattenSeq

\* The first n members of a sequence and the next.
LEMMA Prefix ==
    ASSUME NEW T, NEW s \in Seq(T), NEW n \in Nat, n + 1 <= Len(s)
    PROVE  /\ SubSeq(s, 1, n) \in Seq(T) /\ Len(SubSeq(s, 1, n)) = n
           /\ s[n + 1] \in T
           /\ SubSeq(s, 1, n + 1) = Append(SubSeq(s, 1, n), s[n + 1])
<1>1. Len(s) \in Nat /\ \A i \in 1..Len(s) : s[i] \in T
  BY LenProperties, ElementOfSeq
<1>2. SubSeq(s, 1, n) \in Seq(T) /\ Len(SubSeq(s, 1, n)) = n /\ s[n + 1] \in T
  BY <1>1, SubSeqProperties
<1>3. SubSeq(s, 1, n + 1) = SubSeq(s, 1, (n + 1) - 1) \o <<s[n + 1]>>
  BY <1>1, SubSeqRecursiveSecond
<1>4. (n + 1) - 1 = n
  OBVIOUS
<1> QED  BY <1>2, <1>3, <1>4, AppendIsConcat

LEMMA Assoc ==
    ASSUME NEW T, NEW a \in Seq(T), NEW b \in Seq(T), NEW c \in Seq(T)
    PROVE  (a \o b) \o c = a \o (b \o c)
  OBVIOUS

LEMMA ConcatAppend ==
    ASSUME NEW T, NEW a \in Seq(T), NEW b \in Seq(T), NEW x \in T
    PROVE  a \o Append(b, x) = Append(a \o b, x)
  OBVIOUS

LEMMA FlattenConcat ==
    ASSUME NEW T, NEW a \in Seq(Seq(T)), NEW b \in Seq(Seq(T))
    PROVE  FlattenSeq(a \o b) = FlattenSeq(a) \o FlattenSeq(b)
<1> DEFINE N == {n \in Nat : n <= Len(b) =>
                   FlattenSeq(a \o SubSeq(b, 1, n)) = FlattenSeq(a) \o FlattenSeq(SubSeq(b, 1, n))}
<1>0. Len(b) \in Nat /\ FlattenSeq(a) \in Seq(T)
  BY LenProperties, FlattenAppend, EmptySeq
<1>1. 0 \in N
  <2>1. SubSeq(b, 1, 0) = <<>>
    BY SubSeqEmpty
  <2> QED  BY <1>0, <2>1, FlattenEmpty, ConcatEmptySeq
<1>2. ASSUME NEW n \in Nat, n \in N PROVE n + 1 \in N
  <2> SUFFICES ASSUME n + 1 <= Len(b)
               PROVE  FlattenSeq(a \o SubSeq(b, 1, n + 1)) = FlattenSeq(a) \o FlattenSeq(SubSeq(b, 1, n + 1))
    OBVIOUS
  <2> DEFINE p == SubSeq(b, 1, n)
             x == b[n + 1]
  <2>1. p \in Seq(Seq(T)) /\ x \in Seq(T) /\ SubSeq(b, 1, n + 1) = Append(p, x)
    BY Prefix
  <2>2. FlattenSeq(a \o p) = FlattenSeq(a) \o FlattenSeq(p)
    BY <1>0, <1>2
  <2> HIDE DEF p, x
  <2>3. a \o Append(p, x) = Append(a \o p, x)
    BY <2>1, ConcatAppend, SMTT(30)
  <2>4. FlattenSeq(a \o Append(p, x)) = FlattenSeq(a \o p) \o x
    <3>1. a \o p \in Seq(Seq(T))
      BY <2>1, ConcatProperties
    <3>2. FlattenSeq(Append(a \o p, x)) = FlattenSeq(a \o p) \o x
      BY <2>1, <3>1, FlattenAppend, Zenon
    <3> QED  BY <2>3, <3>2, Zenon
  <2>5. FlattenSeq(Append(p, x)) = FlattenSeq(p) \o x /\ FlattenSeq(p) \in Seq(T)
    BY <2>1, FlattenAppend
  <2>6. x \in Seq(T) /\ FlattenSeq(a) \in Seq(T) /\ FlattenSeq(p) \in Seq(T)
    BY <1>0, <2>1, <2>5
  <2>7. (FlattenSeq(a) \o FlattenSeq(p)) \o x = FlattenSeq(a) \o (FlattenSeq(p) \o x)
    BY <2>6, Assoc, SMTT(30)
  <2> QED  BY <2>1, <2>2, <2>4, <2>5, <2>7, Zenon
<1> HIDE DEF N
<1>3. Len(b) \in N
  BY <1>0, <1>1, <1>2, SetInduction
<1>4. SubSeq(b, 1, Len(b)) = b
  BY SubSeqFull, Zenon
<1>5. Len(b) <= Len(b)
  BY <1>0
<1> QED  BY <1>3, <1>4, <1>5, Zenon DEF N

LEMMA FlattenNone ==
    ASSUME NEW T, NEW s \in Seq(Seq(T)), \A i \in 1..Len(s) : s[i] = <<>>
    PROVE  FlattenSeq(s) = <<>>
<1> DEFINE N == {n \in Nat : n <= Len(s) => FlattenSeq(SubSeq(s, 1, n)) = <<>>}
<1>0. Len(s) \in Nat
  BY LenProperties
<1>1. 0 \in N
  <2>1. SubSeq(s, 1, 0) = <<>>
    BY SubSeqEmpty
  <2> QED  BY <2>1, FlattenEmpty
<1>2. ASSUME NEW n \in Nat, n \in N PROVE n + 1 \in N
  <2> SUFFICES ASSUME n + 1 <= Len(s) PROVE FlattenSeq(SubSeq(s, 1, n + 1)) = <<>>
    OBVIOUS
  <2>1. /\ SubSeq(s, 1, n) \in Seq(Seq(T)) /\ s[n + 1] \in Seq(T)
        /\ SubSeq(s, 1, n + 1) = Append(SubSeq(s, 1, n), s[n + 1])
    BY Prefix
  <2>2. s[n + 1] = <<>> /\ FlattenSeq(SubSeq(s, 1, n)) = <<>>
    BY <1>0, <1>2
  <2>3. FlattenSeq(SubSeq(s, 1, n + 1)) = FlattenSeq(SubSeq(s, 1, n)) \o s[n + 1]
    BY <2>1, FlattenAppend
  <2> QED  BY <2>1, <2>2, <2>3, ConcatEmptySeq
<1> HIDE DEF N
<1>3. Len(s) \in N
  BY <1>0, <1>1, <1>2, SetInduction
<1>4. SubSeq(s, 1, Len(s)) = s
  BY SubSeqFull, Zenon
<1>5. Len(s) <= Len(s)
  BY <1>0
<1> QED  BY <1>3, <1>4, <1>5, Zenon DEF N

-----------------------------------------------------------------------------
(* Sequences of units                                                      *)

Types == {"version", "verack", "ping", "pong", "getdata", "block"}
Msg == {m \in [type : Types, inv : Seq(Nat)] : m.type = "getdata" => m.inv # <<>>}
Unit == {u \in [msg : Msg, at : Nat] : u.at \in 1..Size(u.msg)}

\* What f takes from the members of a sequence, one after the other.
FlatMap(f, us) == FlattenSeq([i \in 1..Len(us) |-> f[us[i]]])

LEMMA FlatMapConcat ==
    ASSUME NEW T, NEW f \in [Unit -> Seq(T)], NEW us \in Seq(Unit), NEW vs \in Seq(Unit)
    PROVE  /\ FlatMap(f, us) \in Seq(T)
           /\ FlatMap(f, us \o vs) = FlatMap(f, us) \o FlatMap(f, vs)
<1> DEFINE M(s) == [i \in 1..Len(s) |-> f[s[i]]]
<1>1. ASSUME NEW s \in Seq(Unit) PROVE M(s) \in Seq(Seq(T)) /\ Len(M(s)) = Len(s)
  OBVIOUS
<1>2. M(us \o vs) = M(us) \o M(vs)
  <2>1. us \o vs \in Seq(Unit)
    OBVIOUS
  <2>2. /\ M(us \o vs) \in Seq(Seq(T)) /\ Len(M(us \o vs)) = Len(us) + Len(vs)
        /\ M(us) \o M(vs) \in Seq(Seq(T)) /\ Len(M(us) \o M(vs)) = Len(us) + Len(vs)
    BY <1>1, <2>1, ConcatProperties
  <2>3. ASSUME NEW i \in 1..(Len(us) + Len(vs)) PROVE M(us \o vs)[i] = (M(us) \o M(vs))[i]
    <3>1. M(us \o vs)[i] = f[(us \o vs)[i]]
      OBVIOUS
    <3>2. (M(us) \o M(vs))[i] = IF i <= Len(us) THEN M(us)[i] ELSE M(vs)[i - Len(us)]
      BY <1>1, ConcatProperties
    <3>3. i \in Int /\ Len(us) \in Nat /\ Len(vs) \in Nat
      OBVIOUS
    <3> QED  BY <3>1, <3>2, <3>3
  <2> HIDE DEF M
  <2> QED  BY <2>2, <2>3, SeqEqual
<1>3. FlatMap(f, us) = FlattenSeq(M(us)) /\ FlatMap(f, vs) = FlattenSeq(M(vs))
      /\ FlatMap(f, us \o vs) = FlattenSeq(M(us \o vs))
  BY Zenon DEF FlatMap
<1> HIDE DEF M
<1>4. FlattenSeq(M(us)) \in Seq(T)
  BY <1>1, FlattenAppend, EmptySeq
<1>5. FlattenSeq(M(us) \o M(vs)) = FlattenSeq(M(us)) \o FlattenSeq(M(vs))
  BY <1>1, FlattenConcat
<1> QED  BY <1>2, <1>3, <1>4, <1>5, Zenon

LEMMA FlatMapOne ==
    ASSUME NEW U, NEW T, NEW f \in [U -> Seq(T)], NEW u \in U
    PROVE  FlatMap(f, <<u>>) = f[u] /\ FlatMap(f, <<>>) = <<>>
<1>1. [i \in 1..Len(<<u>>) |-> f[<<u>>[i]]] = Append(<<>>, f[u])
  OBVIOUS
<1>2. FlattenSeq(Append(<<>>, f[u])) = FlattenSeq(<<>>) \o f[u]
  <2>1. <<>> \in Seq(Seq(T)) /\ f[u] \in Seq(T)
    OBVIOUS
  <2> QED  BY <2>1, FlattenAppend
<1>3. [i \in 1..Len(<<>>) |-> f[<<>>[i]]] = <<>>
  OBVIOUS
<1>4. FlattenSeq(<<>>) \o f[u] = f[u]
  BY FlattenEmpty
<1> QED  BY <1>1, <1>2, <1>3, <1>4, FlattenEmpty DEF FlatMap

LEMMA FlatMapNone ==
    ASSUME NEW U, NEW T, NEW f \in [U -> Seq(T)], NEW us \in Seq(U),
           \A i \in 1..Len(us) : f[us[i]] = <<>>
    PROVE  FlatMap(f, us) = <<>>
<1> DEFINE M == [i \in 1..Len(us) |-> f[us[i]]]
<1>1. M \in Seq(Seq(T)) /\ Len(M) = Len(us) /\ \A i \in 1..Len(us) : M[i] = <<>>
  OBVIOUS
<1>2. FlatMap(f, us) = FlattenSeq(M)
  BY Zenon DEF FlatMap
<1> HIDE DEF M
<1> QED  BY <1>1, <1>2, FlattenNone

-----------------------------------------------------------------------------
(* The inductive invariant                                                 *)

Age == {Never} \cup 0..(Timeout + 1)

CNode == [vSendMsg : Seq(Unit), vRecvMsg : Seq(Unit), vRecvGetData : Seq(Nat),
          nVersion : BOOLEAN, hSocket : BOOLEAN, fDisconnect : BOOLEAN,
          sel : {"none", "send", "recv"}, asked : Nat, nTimeConnected : {0, 1},
          nLastSend : Age, nLastRecv : Age, nLastSendEmpty : Age]

TypeOK ==
    /\ node \in [Node -> CNode] /\ wire \in [Node -> Seq(Unit)]
    /\ \A n \in Node : Len(wire[n]) <= PipeSize
    /\ cut \in BOOLEAN /\ got \in [Node -> Seq(Nat)]

\* One unit of a stream comes after another.
Follows(u, v) == IF u.at = Size(u.msg) THEN v.at = 1 ELSE v = [msg |-> u.msg, at |-> u.at + 1]

\* A stretch of messages, ...
Linked(us) ==
    /\ us \in Seq(Unit)
    /\ \A i \in 1..(Len(us) - 1) : Follows(us[i], us[i + 1])

\* ... which are whole, but that the first may have lost its beginning.
Framed(us) ==
    /\ Linked(us)
    /\ us # <<>> => us[Len(us)].at = Size(us[Len(us)].msg)

\* What a node has pushed and the other has not processed.
Stream(p) == node[Peer(p)].vRecvMsg \o (wire[p] \o node[p].vSendMsg)

Frames ==
    \A p \in Node : /\ Framed(Stream(p))
                    /\ node[Peer(p)].hSocket /\ Stream(p) # <<>> => Stream(p)[1].at = 1

\* A socket that is closed has no data.
Shut == \A n \in Node : ~node[n].hSocket => node[n].fDisconnect /\ node[n].vRecvMsg = <<>>

\* A version comes first.
Greeting ==
    \A p \in Node :
        /\ ~node[p].nVersion => node[p].vRecvGetData = <<>>
        /\ node[Peer(p)].hSocket /\ ~node[Peer(p)].nVersion =>
              IF Stream(p) = <<>> THEN p = In /\ ~node[p].nVersion
              ELSE Stream(p)[1].msg.type = "version"

\* The blocks of NothingLost, stream by stream.
Blocks ==
    \A n \in Node : LET p == Peer(n)
                    IN  node[n].hSocket /\ node[p].hSocket =>
                          got[n] \o (Carried(Stream(p), "block") \o (node[p].vRecvGetData
                                 \o Carried(Stream(n), "getdata")))
                          = [i \in 1..node[n].asked |-> i]

\* The requests in a queue, one unit each.
Asks(us) == FlattenSeq([i \in 1..Len(us) |-> IF us[i].msg.type = "getdata" THEN <<us[i]>> ELSE <<>>])

Reply == IF BlockSize > 2 THEN BlockSize ELSE 2
Flood == IF ReceiveFloodSize > BlockSize THEN ReceiveFloodSize ELSE BlockSize

Buffered ==
    \A n \in Node :
        /\ nSendSize(node[n]) - Len(Asks(node[n].vSendMsg)) < SendBufferSize + Reply
        /\ GetTotalRecvSize(node[n]) < Flood + Chunk + BlockSize
        /\ node[n].sel = "recv" => ~Complete(node[n]) \/ GetTotalRecvSize(node[n]) <= ReceiveFloodSize

\* While the network works, the connection is in one of three conditions.  It
\* is healthy: what a node has sent is on its way, or has been heard of since.
Healthy ==
    \A n \in Node :
        /\ node[n].hSocket /\ ~node[n].fDisconnect
        /\ node[n].nLastSend <= PingInterval + 1 /\ node[n].nLastRecv <= PingInterval + 1
        /\ node[n].nTimeConnected > 0 => Never \notin {node[n].nLastSend, node[n].nLastRecv}
        /\ node[n].nLastSend = Never =>
              n = In /\ ~node[n].nVersion /\ wire[n] = <<>> /\ node[n].vSendMsg = <<>>
        /\ wire[n] = <<>> /\ node[n].nLastSend # Never =>
              node[Peer(n)].nLastRecv # Never /\ node[Peer(n)].nLastRecv <= node[n].nLastSend

\* It is jammed for good.
Frozen == Jammed /\ \A n \in Node : node[n].sel = "none"

\* A node that was in a jam has closed it, and the other will find out.
Over ==
    /\ \E n \in Node : ~node[n].hSocket
    /\ \A n \in Node : node[n].hSocket => node[n].vSendMsg # <<>> /\ node[n].sel # "recv"

Course == cut \/ Healthy \/ Frozen \/ Over

IInv == TypeOK /\ Frames /\ Shut /\ Greeting /\ Blocks /\ Buffered /\ Course

-----------------------------------------------------------------------------
(* Messages and their units                                                *)

LEMMA Sizes ==
    ASSUME NEW m
    PROVE  /\ Size(m) \in Nat /\ 1 <= Size(m) /\ Size(m) <= BlockSize
           /\ m.type # "block" => Size(m) = 1
  BY SizesAssumption DEF Size

LEMMA UnitFacts ==
    ASSUME NEW u \in Unit
    PROVE  /\ u.msg \in Msg /\ u.at \in Nat /\ 1 <= u.at /\ u.at <= Size(u.msg)
           /\ u.msg.type \in Types /\ u.msg.inv \in Seq(Nat)
           /\ u.msg.type = "getdata" => u.at = 1 /\ Size(u.msg) = 1 /\ u.msg.inv # <<>>
<1>1. u.msg \in Msg /\ u.at \in Nat /\ u.at \in 1..Size(u.msg)
  BY DEF Unit
<1>2. u.msg.type \in Types /\ u.msg.inv \in Seq(Nat) /\ (u.msg.type = "getdata" => u.msg.inv # <<>>)
  BY <1>1 DEF Msg
<1> QED  BY <1>1, <1>2, Sizes

LEMMA UnitsOf ==
    ASSUME NEW m \in Msg
    PROVE  /\ Units(m) \in Seq(Unit) /\ Len(Units(m)) = Size(m) /\ Units(m) # <<>>
           /\ \A i \in 1..Size(m) : Units(m)[i] = [msg |-> m, at |-> i] /\ Units(m)[i] \in Unit
<1>1. ASSUME NEW i \in 1..Size(m) PROVE [msg |-> m, at |-> i] \in Unit
  BY Sizes DEF Unit
<1>2. Size(m) \in Nat /\ 1 <= Size(m)
  BY Sizes
<1> QED  BY <1>1, <1>2 DEF Units

Cargo(type) == [u \in Unit |-> IF u.msg.type = type /\ u.at = Size(u.msg) THEN u.msg.inv ELSE <<>>]
Header == [u \in Unit |-> IF u.at = 1 THEN Units(u.msg) ELSE <<>>]
Request == [u \in Unit |-> IF u.msg.type = "getdata" THEN <<u>> ELSE <<>>]

LEMMA Maps ==
    /\ \A type : Cargo(type) \in [Unit -> Seq(Nat)]
    /\ Header \in [Unit -> Seq(Unit)]
    /\ Request \in [Unit -> Seq(Unit)]
<1>1. ASSUME NEW type PROVE Cargo(type) \in [Unit -> Seq(Nat)]
  BY UnitFacts DEF Cargo
<1>2. Header \in [Unit -> Seq(Unit)]
  BY UnitFacts, UnitsOf DEF Header
<1>3. Request \in [Unit -> Seq(Unit)]
  BY DEF Request
<1> QED  BY <1>1, <1>2, <1>3

LEMMA AsMaps ==
    ASSUME NEW us \in Seq(Unit)
    PROVE  /\ \A type : Carried(us, type) = FlatMap(Cargo(type), us)
           /\ Buffers(us) = FlatMap(Header, us)
           /\ Asks(us) = FlatMap(Request, us)
<1>1. \A i \in 1..Len(us) : us[i] \in Unit
  OBVIOUS
<1>2. ASSUME NEW type PROVE Carried(us, type) = FlatMap(Cargo(type), us)
  <2>1. [i \in 1..Len(us) |-> IF us[i].msg.type = type /\ us[i].at = Size(us[i].msg) THEN us[i].msg.inv ELSE <<>>]
        = [i \in 1..Len(us) |-> Cargo(type)[us[i]]]
    BY <1>1 DEF Cargo
  <2> QED  BY <2>1 DEF Carried, FlatMap
<1>3. Buffers(us) = FlatMap(Header, us)
  <2>1. [i \in 1..Len(us) |-> IF us[i].at = 1 THEN Units(us[i].msg) ELSE <<>>] = [i \in 1..Len(us) |-> Header[us[i]]]
    BY <1>1 DEF Header
  <2> QED  BY <2>1 DEF Buffers, FlatMap
<1>4. Asks(us) = FlatMap(Request, us)
  <2>1. [i \in 1..Len(us) |-> IF us[i].msg.type = "getdata" THEN <<us[i]>> ELSE <<>>] = [i \in 1..Len(us) |-> Request[us[i]]]
    BY <1>1 DEF Request
  <2> QED  BY <2>1 DEF Asks, FlatMap
<1> QED  BY <1>2, <1>3, <1>4

LEMMA CarriedConcat ==
    ASSUME NEW us \in Seq(Unit), NEW vs \in Seq(Unit), NEW type
    PROVE  /\ Carried(us, type) \in Seq(Nat)
           /\ Carried(us \o vs, type) = Carried(us, type) \o Carried(vs, type)
<1> DEFINE f == Cargo(type)
<1>1. us \o vs \in Seq(Unit) /\ f \in [Unit -> Seq(Nat)]
  BY Maps
<1>2. /\ Carried(us, type) = FlatMap(f, us) /\ Carried(vs, type) = FlatMap(f, vs)
      /\ Carried(us \o vs, type) = FlatMap(f, us \o vs)
  BY <1>1, AsMaps
<1> HIDE DEF f
<1>3. FlatMap(f, us) \in Seq(Nat) /\ FlatMap(f, us \o vs) = FlatMap(f, us) \o FlatMap(f, vs)
  BY <1>1, FlatMapConcat, ZenonT(40)
<1> QED  BY <1>2, <1>3

LEMMA CarriedUnits ==
    ASSUME NEW m \in Msg, NEW type
    PROVE  Carried(Units(m), type) = IF m.type = type THEN m.inv ELSE <<>>
<1> DEFINE f == Cargo(type)
           u == [msg |-> m, at |-> Size(m)]
           r == SubSeq(Units(m), 1, Size(m) - 1)
<1>1. /\ Units(m) \in Seq(Unit) /\ Len(Units(m)) = Size(m)
      /\ \A i \in 1..Size(m) : Units(m)[i] = [msg |-> m, at |-> i] /\ Units(m)[i] \in Unit
  BY UnitsOf
<1>2. Size(m) \in Nat /\ 1 <= Size(m) /\ m.inv \in Seq(Nat)
  BY Sizes DEF Msg
<1>3. u \in Unit /\ f \in [Unit -> Seq(Nat)]
  <2>1. Size(m) \in 1..Size(m)
    BY <1>2
  <2>2. u = Units(m)[Size(m)] /\ Units(m)[Size(m)] \in Unit
    BY <1>1, <2>1
  <2> QED  BY <2>2, Maps
<1>4. r \in Seq(Unit) /\ Len(r) = Size(m) - 1 /\ \A i \in 1..(Size(m) - 1) : r[i] = [msg |-> m, at |-> i]
  BY <1>1, <1>2
<1>5. Units(m) = r \o <<u>>
  <2>1. Units(m)[Size(m)] = u
    BY <1>1, <1>2
  <2>2. SubSeq(Units(m), 1, Size(m)) = r \o <<Units(m)[Size(m)]>>
    BY <1>1, <1>2, SubSeqRecursiveSecond
  <2>3. SubSeq(Units(m), 1, Size(m)) = Units(m)
    BY <1>1, SubSeqFull
  <2> QED  BY <2>1, <2>2, <2>3
<1>6. f[u] = IF m.type = type THEN m.inv ELSE <<>>
  BY <1>3 DEF Cargo
<1>7. ASSUME NEW i \in 1..Len(r) PROVE f[r[i]] = <<>>
  <2>1. i \in 1..(Size(m) - 1) /\ i # Size(m)
    BY <1>2, <1>4
  <2>2. r[i] = [msg |-> m, at |-> i] /\ r[i] \in Unit
    BY <1>4, <2>1
  <2> HIDE DEF r
  <2>3. r[i].msg = m /\ r[i].at = i
    BY <2>2
  <2>4. f[r[i]] = IF r[i].msg.type = type /\ r[i].at = Size(r[i].msg) THEN r[i].msg.inv ELSE <<>>
    BY <2>2 DEF Cargo
  <2> QED  BY <2>1, <2>3, <2>4
<1> HIDE DEF f, u, r
<1>8. FlatMap(f, r) = <<>>
  BY <1>3, <1>4, <1>7, FlatMapNone
<1>9. FlatMap(f, <<u>>) = f[u]
  BY <1>3, FlatMapOne
<1>10. FlatMap(f, r \o <<u>>) = FlatMap(f, r) \o FlatMap(f, <<u>>)
  <2>1. <<u>> \in Seq(Unit) /\ r \in Seq(Unit)
    BY <1>3, <1>4
  <2> QED  BY <1>3, <2>1, FlatMapConcat, ZenonT(40)
<1>11. f[u] \in Seq(Nat)
  BY <1>3
<1>12. Carried(Units(m), type) = FlatMap(f, Units(m))
  BY <1>1, AsMaps DEF f
<1> QED  BY <1>5, <1>6, <1>8, <1>9, <1>10, <1>11, <1>12

LEMMA BuffersJoin ==
    ASSUME NEW us \in Seq(Unit), NEW vs \in Seq(Unit)
    PROVE  /\ Buffers(us) \in Seq(Unit)
           /\ Buffers(us \o vs) = Buffers(us) \o Buffers(vs)
<1>1. us \o vs \in Seq(Unit) /\ Header \in [Unit -> Seq(Unit)]
  BY Maps
<1>2. /\ Buffers(us) = FlatMap(Header, us) /\ Buffers(vs) = FlatMap(Header, vs)
      /\ Buffers(us \o vs) = FlatMap(Header, us \o vs)
  BY <1>1, AsMaps
<1>3. FlatMap(Header, us) \in Seq(Unit) /\ FlatMap(Header, us \o vs) = FlatMap(Header, us) \o FlatMap(Header, vs)
  BY <1>1, FlatMapConcat
<1> QED  BY <1>2, <1>3

LEMMA BuffersConcat ==
    ASSUME NEW us \in Seq(Unit), NEW u \in Unit
    PROVE  Len(Buffers(us \o <<u>>)) = Len(Buffers(us)) + IF u.at = 1 THEN Size(u.msg) ELSE 0
<1>1. <<u>> \in Seq(Unit) /\ Header \in [Unit -> Seq(Unit)]
  BY Maps
<1>2. Len(Header[u]) = IF u.at = 1 THEN Size(u.msg) ELSE 0
  BY UnitFacts, UnitsOf DEF Header
<1>3. Buffers(<<u>>) = Header[u] /\ Header[u] \in Seq(Unit)
  BY <1>1, AsMaps, FlatMapOne, ZenonT(40)
<1>4. Buffers(us) \in Seq(Unit) /\ Buffers(us \o <<u>>) = Buffers(us) \o Buffers(<<u>>)
  BY <1>1, BuffersJoin
<1> QED  BY <1>2, <1>3, <1>4

LEMMA AsksConcat ==
    ASSUME NEW us \in Seq(Unit), NEW vs \in Seq(Unit)
    PROVE  /\ Asks(us) \in Seq(Unit)
           /\ Asks(us \o vs) = Asks(us) \o Asks(vs)
<1>1. us \o vs \in Seq(Unit) /\ Request \in [Unit -> Seq(Unit)]
  BY Maps
<1>2. /\ Asks(us) = FlatMap(Request, us) /\ Asks(vs) = FlatMap(Request, vs)
      /\ Asks(us \o vs) = FlatMap(Request, us \o vs)
  BY <1>1, AsMaps
<1>3. FlatMap(Request, us) \in Seq(Unit) /\ FlatMap(Request, us \o vs) = FlatMap(Request, us) \o FlatMap(Request, vs)
  BY <1>1, FlatMapConcat
<1> QED  BY <1>2, <1>3

LEMMA AsksOne ==
    ASSUME NEW u \in Unit
    PROVE  Len(Asks(<<u>>)) = IF u.msg.type = "getdata" THEN 1 ELSE 0
<1>1. <<u>> \in Seq(Unit) /\ Request \in [Unit -> Seq(Unit)]
  BY Maps
<1>2. Asks(<<u>>) = Request[u]
  BY <1>1, AsMaps, FlatMapOne, ZenonT(40)
<1> QED  BY <1>2 DEF Request

LEMMA OfNothing ==
    /\ Asks(<<>>) = <<>> /\ Buffers(<<>>) = <<>>
    /\ \A type : Carried(<<>>, type) = <<>>
<1>1. <<>> \in Seq(Unit) /\ Len(<<>>) = 0
  OBVIOUS
<1>2. ASSUME NEW T, NEW f \in [Unit -> Seq(T)] PROVE FlatMap(f, <<>>) = <<>>
  <2>1. \A i \in 1..Len(<<>>) : f[<<>>[i]] = <<>>
    BY <1>1
  <2> QED  BY <1>1, <2>1, FlatMapNone
<1>3. FlatMap(Request, <<>>) = <<>> /\ FlatMap(Header, <<>>) = <<>>
  BY <1>2, Maps
<1>4. ASSUME NEW type PROVE FlatMap(Cargo(type), <<>>) = <<>>
  <2> DEFINE f == Cargo(type)
  <2>1. f \in [Unit -> Seq(Nat)]
    BY Maps
  <2> HIDE DEF f
  <2>2. FlatMap(f, <<>>) = <<>>
    BY <1>2, <2>1
  <2> QED  BY <2>2 DEF f
<1> QED  BY <1>1, <1>3, <1>4, AsMaps

\* A request names at least one block.
LEMMA AsksCarried ==
    ASSUME NEW us \in Seq(Unit)
    PROVE  /\ Len(Asks(us)) \in Nat /\ Len(Carried(us, "getdata")) \in Nat
           /\ Len(Asks(us)) <= Len(Carried(us, "getdata"))
<1> DEFINE p(n) == SubSeq(us, 1, n)
           N == {n \in Nat : n <= Len(us) => Len(Asks(p(n))) <= Len(Carried(p(n), "getdata"))}
<1>0. Len(us) \in Nat /\ us = p(Len(us)) /\ Asks(us) \in Seq(Unit) /\ Carried(us, "getdata") \in Seq(Nat)
  BY SubSeqFull, AsksConcat, CarriedConcat
<1>1. 0 \in N
  <2>1. p(0) = <<>> /\ <<>> \in Seq(Unit)
    BY SubSeqEmpty
  <2> HIDE DEF p
  <2> QED  BY <2>1, OfNothing
<1>2. ASSUME NEW n \in Nat, n \in N PROVE n + 1 \in N
  <2> SUFFICES ASSUME n + 1 <= Len(us)
               PROVE  Len(Asks(p(n + 1))) <= Len(Carried(p(n + 1), "getdata"))
    OBVIOUS
  <2> DEFINE u == us[n + 1]
             v == p(n)
  <2>1. v \in Seq(Unit) /\ u \in Unit /\ p(n + 1) = v \o <<u>> /\ <<u>> \in Seq(Unit)
    BY Prefix
  <2>2. Len(Asks(v)) <= Len(Carried(v, "getdata"))
    BY <1>0, <1>2
  <2> HIDE DEF u, v, p
  <2>7. Asks(v \o <<u>>) = Asks(v) \o Asks(<<u>>) /\ Asks(v) \in Seq(Unit) /\ Asks(<<u>>) \in Seq(Unit)
    BY <2>1, AsksConcat
  <2>3. /\ Carried(v \o <<u>>, "getdata") = Carried(v, "getdata") \o Carried(<<u>>, "getdata")
        /\ Carried(v, "getdata") \in Seq(Nat) /\ Carried(<<u>>, "getdata") \in Seq(Nat)
    BY <2>1, CarriedConcat
  <2>4. Len(Asks(<<u>>)) <= Len(Carried(<<u>>, "getdata"))
    <3> DEFINE f == Cargo("getdata")
    <3>1. f \in [Unit -> Seq(Nat)] /\ Carried(<<u>>, "getdata") = FlatMap(f, <<u>>)
      BY <2>1, Maps, AsMaps
    <3>2. f[u] = IF u.msg.type = "getdata" /\ u.at = Size(u.msg) THEN u.msg.inv ELSE <<>>
      BY <2>1 DEF Cargo
    <3> HIDE DEF f
    <3>3. Carried(<<u>>, "getdata") = f[u]
      BY <2>1, <3>1, FlatMapOne
    <3>4. u.msg.type = "getdata" => f[u] # <<>> /\ f[u] \in Seq(Nat)
      BY <2>1, <3>2, UnitFacts
    <3>5. u.msg.type = "getdata" => Len(f[u]) >= 1
      BY <3>4
    <3> QED  BY <2>1, <2>3, <2>7, <3>3, <3>5, AsksOne
  <2>5. Len(Asks(v) \o Asks(<<u>>)) = Len(Asks(v)) + Len(Asks(<<u>>))
    BY <2>7
  <2>6. Len(Carried(v, "getdata") \o Carried(<<u>>, "getdata")) = Len(Carried(v, "getdata")) + Len(Carried(<<u>>, "getdata"))
    BY <2>3
  <2>8. Len(Asks(v)) + Len(Asks(<<u>>)) <= Len(Carried(v, "getdata")) + Len(Carried(<<u>>, "getdata"))
    <3>1. /\ Len(Asks(v)) \in Nat /\ Len(Asks(<<u>>)) \in Nat
          /\ Len(Carried(v, "getdata")) \in Nat /\ Len(Carried(<<u>>, "getdata")) \in Nat
      BY <2>3, <2>7
    <3> QED  BY <2>2, <2>4, <3>1
  <2>9. Len(Asks(v \o <<u>>)) <= Len(Carried(v \o <<u>>, "getdata"))
    BY <2>3, <2>5, <2>6, <2>7, <2>8, Zenon
  <2> QED  BY <2>1, <2>9, Zenon
<1> HIDE DEF N
<1>3. Len(us) \in N
  BY <1>0, <1>1, <1>2, SetInduction
<1>4. Len(Asks(p(Len(us)))) <= Len(Carried(p(Len(us)), "getdata"))
  BY <1>0, <1>3 DEF N
<1> HIDE DEF p
<1> QED  BY <1>0, <1>4

-----------------------------------------------------------------------------
(* Streams of units                                                        *)

LEMMA Split ==
    ASSUME NEW us \in Seq(Unit), NEW k \in 0..Len(us)
    PROVE  /\ SubSeq(us, 1, k) \in Seq(Unit) /\ Len(SubSeq(us, 1, k)) = k
           /\ SubSeq(us, k + 1, Len(us)) \in Seq(Unit) /\ Len(SubSeq(us, k + 1, Len(us))) = Len(us) - k
           /\ \A i \in 1..(Len(us) - k) : SubSeq(us, k + 1, Len(us))[i] = us[i + k]
           /\ SubSeq(us, 1, k) \o SubSeq(us, k + 1, Len(us)) = us
<1>1. Len(us) \in Nat /\ k \in Nat /\ k <= Len(us)
  OBVIOUS
<1>2. /\ SubSeq(us, 1, k) \in Seq(Unit) /\ Len(SubSeq(us, 1, k)) = k
      /\ \A i \in 1..k : SubSeq(us, 1, k)[i] = us[i]
  BY <1>1
<1>3. /\ SubSeq(us, k + 1, Len(us)) \in Seq(Unit) /\ Len(SubSeq(us, k + 1, Len(us))) = Len(us) - k
      /\ \A i \in 1..(Len(us) - k) : SubSeq(us, k + 1, Len(us))[i] = us[i + k]
  BY <1>1
<1> DEFINE a == SubSeq(us, 1, k)
           b == SubSeq(us, k + 1, Len(us))
<1> HIDE DEF a, b
<1>4. a \o b \in Seq(Unit) /\ Len(a \o b) = Len(us)
  <2>1. a \in Seq(Unit) /\ b \in Seq(Unit) /\ Len(a) = k /\ Len(b) = Len(us) - k
    BY <1>2, <1>3 DEF a, b
  <2> QED  BY <1>1, <2>1
<1>5. ASSUME NEW i \in 1..Len(us) PROVE (a \o b)[i] = us[i]
  <2>1. a \in Seq(Unit) /\ b \in Seq(Unit) /\ Len(a) = k /\ Len(b) = Len(us) - k
    BY <1>2, <1>3 DEF a, b
  <2>2. (a \o b)[i] = IF i <= k THEN a[i] ELSE b[i - k]
    BY <1>1, <2>1
  <2>3. CASE i <= k
    BY <1>1, <1>2, <2>2, <2>3 DEF a
  <2>4. CASE ~(i <= k)
    <3>1. i - k \in 1..(Len(us) - k) /\ (i - k) + k = i
      BY <1>1, <2>4
    <3> QED  BY <1>3, <2>2, <2>4, <3>1 DEF b
  <2> QED  BY <2>3, <2>4
<1>6. a \o b = us
  BY <1>4, <1>5, SeqEqual
<1> QED  BY <1>2, <1>3, <1>6 DEF a, b

LEMMA LinkedParts ==
    ASSUME NEW us \in Seq(Unit), NEW vs \in Seq(Unit), Linked(us \o vs)
    PROVE  Linked(us) /\ Linked(vs)
<1> DEFINE s == us \o vs
<1>1. /\ Len(us) \in Nat /\ Len(vs) \in Nat /\ Len(s) = Len(us) + Len(vs)
      /\ \A i \in 1..Len(us) : s[i] = us[i]
      /\ \A i \in 1..Len(vs) : s[Len(us) + i] = vs[i]
  OBVIOUS
<1>2. \A i \in 1..(Len(s) - 1) : Follows(s[i], s[i + 1])
  BY DEF Linked
<1> HIDE DEF s
<1>3. ASSUME NEW i \in 1..(Len(us) - 1) PROVE Follows(us[i], us[i + 1])
  <2>1. i \in 1..(Len(s) - 1) /\ i \in 1..Len(us) /\ i + 1 \in 1..Len(us)
    BY <1>1
  <2> QED  BY <1>1, <1>2, <2>1
<1>4. ASSUME NEW i \in 1..(Len(vs) - 1) PROVE Follows(vs[i], vs[i + 1])
  <2>1. Len(us) + i \in 1..(Len(s) - 1) /\ i \in 1..Len(vs) /\ i + 1 \in 1..Len(vs)
        /\ (Len(us) + i) + 1 = Len(us) + (i + 1)
    BY <1>1
  <2>2. Follows(s[Len(us) + i], s[Len(us) + (i + 1)])
    BY <1>2, <2>1
  <2> QED  BY <1>1, <2>1, <2>2
<1> QED  BY <1>3, <1>4 DEF Linked

LEMMA LinkedJoin ==
    ASSUME NEW us, NEW vs, Linked(us), Linked(vs),
           us # <<>> /\ vs # <<>> => Follows(us[Len(us)], vs[1])
    PROVE  Linked(us \o vs)
<1> DEFINE s == us \o vs
<1>0. us \in Seq(Unit) /\ vs \in Seq(Unit)
  BY DEF Linked
<1>1. /\ Len(us) \in Nat /\ Len(vs) \in Nat /\ s \in Seq(Unit) /\ Len(s) = Len(us) + Len(vs)
      /\ \A i \in 1..Len(us) : s[i] = us[i]
      /\ \A i \in 1..Len(vs) : s[Len(us) + i] = vs[i]
  BY <1>0
<1> HIDE DEF s
<1>2. ASSUME NEW i \in 1..(Len(s) - 1) PROVE Follows(s[i], s[i + 1])
  <2>1. CASE i < Len(us)
    <3>1. i \in 1..(Len(us) - 1) /\ i \in 1..Len(us) /\ i + 1 \in 1..Len(us)
      BY <1>1, <2>1
    <3> QED  BY <1>1, <3>1 DEF Linked
  <2>2. CASE i = Len(us)
    <3>1. i \in 1..Len(us) /\ 1 \in 1..Len(vs) /\ us # <<>> /\ vs # <<>>
      BY <1>0, <1>1, <2>2
    <3>2. s[i] = us[Len(us)] /\ s[i + 1] = vs[1]
      BY <1>1, <2>2, <3>1
    <3> QED  BY <3>1, <3>2
  <2>3. CASE i > Len(us)
    <3> DEFINE j == i - Len(us)
    <3>1. j \in 1..(Len(vs) - 1) /\ j \in 1..Len(vs) /\ j + 1 \in 1..Len(vs)
          /\ i = Len(us) + j /\ i + 1 = Len(us) + (j + 1)
      BY <1>1, <2>3
    <3> HIDE DEF j
    <3>2. s[i] = vs[j] /\ s[i + 1] = vs[j + 1] /\ Follows(vs[j], vs[j + 1])
      BY <1>1, <3>1 DEF Linked
    <3> QED  BY <3>2
  <2>4. i < Len(us) \/ i = Len(us) \/ i > Len(us)
    BY <1>1
  <2> QED  BY <2>1, <2>2, <2>3, <2>4
<1> QED  BY <1>1, <1>2 DEF Linked, s

LEMMA FramedDrop ==
    ASSUME NEW us \in Seq(Unit), NEW vs \in Seq(Unit), Framed(us \o vs)
    PROVE  Framed(vs)
<1>1. Linked(vs)
  BY LinkedParts DEF Framed
<1>2. ASSUME vs # <<>> PROVE vs[Len(vs)] = (us \o vs)[Len(us \o vs)] /\ us \o vs # <<>>
  BY <1>2
<1> QED  BY <1>1, <1>2 DEF Framed

LEMMA FramedPush ==
    ASSUME NEW us, Framed(us), NEW m \in Msg
    PROVE  Framed(us \o Units(m))
<1> DEFINE v == Units(m)
<1>1. /\ v \in Seq(Unit) /\ Len(v) = Size(m) /\ v # <<>>
      /\ \A i \in 1..Size(m) : v[i] = [msg |-> m, at |-> i] /\ v[i] \in Unit
  BY UnitsOf
<1>2. Size(m) \in Nat /\ 1 <= Size(m)
  BY Sizes
<1> HIDE DEF v
<1>3. Linked(v)
  <2>1. ASSUME NEW i \in 1..(Len(v) - 1) PROVE Follows(v[i], v[i + 1])
    <3>1. i \in 1..Size(m) /\ i + 1 \in 1..Size(m) /\ i # Size(m)
      BY <1>1, <1>2
    <3>2. v[i] = [msg |-> m, at |-> i] /\ v[i + 1] = [msg |-> m, at |-> i + 1]
      BY <1>1, <3>1
    <3> QED  BY <3>1, <3>2 DEF Follows
  <2> QED  BY <1>1, <2>1 DEF Linked
<1>4. v[1].at = 1 /\ v[Len(v)].at = Size(v[Len(v)].msg)
  <2>1. v[1] = [msg |-> m, at |-> 1] /\ v[Size(m)] = [msg |-> m, at |-> Size(m)]
    BY <1>1, <1>2
  <2> QED  BY <1>1, <2>1
<1>5. us \in Seq(Unit) /\ Linked(us) /\ (us # <<>> => us[Len(us)].at = Size(us[Len(us)].msg))
  BY DEF Framed, Linked
<1>6. Linked(us \o v)
  BY <1>3, <1>4, <1>5, LinkedJoin DEF Follows
<1>7. (us \o v)[Len(us \o v)] = v[Len(v)]
  BY <1>1, <1>5
<1> QED  BY <1>4, <1>6, <1>7 DEF Framed, v

\* A message is there unit by unit.
LEMMA Run ==
    ASSUME NEW us, Linked(us), us # <<>>, us[1].at = 1, NEW j \in 1..Len(us), j <= Size(us[1].msg)
    PROVE  us[j] = [msg |-> us[1].msg, at |-> j]
<1> DEFINE m == us[1].msg
           N == {n \in Nat : n + 1 <= Len(us) /\ n + 1 <= Size(m) => us[n + 1] = [msg |-> m, at |-> n + 1]}
<1>1. /\ us \in Seq(Unit) /\ Len(us) \in Nat \ {0} /\ \A i \in 1..Len(us) : us[i] \in Unit
      /\ \A i \in 1..(Len(us) - 1) : Follows(us[i], us[i + 1])
  BY EmptySeq DEF Linked
<1>2. Size(m) \in Nat
  BY Sizes
<1>3. 0 \in N
  <2>1. us[1] \in [msg : Msg, at : Nat]
    BY <1>1 DEF Unit
  <2>2. us[1] = [msg |-> m, at |-> 1]
    BY <2>1
  <2> QED  BY <2>2
<1>4. ASSUME NEW n \in Nat, n \in N PROVE n + 1 \in N
  <2> SUFFICES ASSUME (n + 1) + 1 <= Len(us), (n + 1) + 1 <= Size(m)
               PROVE  us[(n + 1) + 1] = [msg |-> m, at |-> (n + 1) + 1]
    OBVIOUS
  <2>1. us[n + 1] = [msg |-> m, at |-> n + 1]
    BY <1>1, <1>2, <1>4
  <2>2. Follows(us[n + 1], us[(n + 1) + 1])
    BY <1>1
  <2>3. n + 1 # Size(m)
    BY <1>2
  <2> HIDE DEF m
  <2> QED  BY <2>1, <2>2, <2>3 DEF Follows
<1> HIDE DEF N
<1>5. Nat \subseteq N
  BY <1>3, <1>4, SetInduction
<1>6. j - 1 \in N /\ (j - 1) + 1 = j /\ j <= Len(us)
  BY <1>1, <1>5
<1> QED  BY <1>6 DEF N

\* A message that has all its units is the beginning of the stream.
LEMMA FirstMessage ==
    ASSUME NEW us, Linked(us), us # <<>>, us[1].at = 1, Size(us[1].msg) <= Len(us)
    PROVE  LET m == us[1].msg
               r == SubSeq(us, Size(m) + 1, Len(us))
           IN  /\ m \in Msg /\ r \in Seq(Unit) /\ us = Units(m) \o r
               /\ r # <<>> => r[1].at = 1
<1> DEFINE m == us[1].msg
           r == SubSeq(us, Size(m) + 1, Len(us))
           a == SubSeq(us, 1, Size(m))
<1>1. /\ us \in Seq(Unit) /\ Len(us) \in Nat \ {0} /\ \A i \in 1..Len(us) : us[i] \in Unit
      /\ \A i \in 1..(Len(us) - 1) : Follows(us[i], us[i + 1])
  BY EmptySeq DEF Linked
<1>2. Size(m) \in Nat /\ 1 <= Size(m) /\ m \in Msg
  BY <1>1, Sizes, UnitFacts
<1>3. /\ Units(m) \in Seq(Unit) /\ Len(Units(m)) = Size(m)
      /\ \A i \in 1..Size(m) : Units(m)[i] = [msg |-> m, at |-> i]
  BY <1>2, UnitsOf
<1>4. /\ a \in Seq(Unit) /\ Len(a) = Size(m) /\ r \in Seq(Unit) /\ Len(r) = Len(us) - Size(m)
      /\ \A i \in 1..(Len(us) - Size(m)) : r[i] = us[i + Size(m)]
      /\ a \o r = us
  <2>1. Size(m) \in 0..Len(us)
    BY <1>1, <1>2
  <2> QED  BY <1>1, <2>1, Split
<1>5. ASSUME NEW i \in 1..Size(m) PROVE us[i] = [msg |-> m, at |-> i]
  BY <1>1, <1>2, Run
<1>6. a = Units(m)
  <2>1. ASSUME NEW i \in 1..Size(m) PROVE a[i] = Units(m)[i]
    <3>1. a[i] = us[i]
      BY <1>1, <1>2
    <3> QED  BY <1>3, <1>5, <3>1
  <2> HIDE DEF a
  <2> QED  BY <1>3, <1>4, <2>1, SeqEqual
<1>7. ASSUME r # <<>> PROVE r[1].at = 1
  <2>1. Len(us) - Size(m) >= 1
    <3> HIDE DEF r
    <3> QED  BY <1>1, <1>2, <1>4, <1>7
  <2>2. r[1] = us[Size(m) + 1] /\ Size(m) \in 1..(Len(us) - 1)
    <3> HIDE DEF r
    <3>1. 1 \in 1..(Len(us) - Size(m)) /\ 1 + Size(m) = Size(m) + 1
      BY <1>1, <1>2, <2>1
    <3> QED  BY <1>1, <1>2, <1>4, <3>1, <2>1
  <2>3. us[Size(m)] = [msg |-> m, at |-> Size(m)]
    BY <1>2, <1>5
  <2>4. Follows(us[Size(m)], us[Size(m) + 1])
    BY <1>1, <2>2
  <2> HIDE DEF r, m
  <2> QED  BY <2>2, <2>3, <2>4 DEF Follows
<1> HIDE DEF m, r, a
<1>8. m \in Msg /\ r \in Seq(Unit) /\ us = Units(m) \o r /\ (r # <<>> => r[1].at = 1)
  BY <1>2, <1>4, <1>6, <1>7
<1> QED  BY <1>8 DEF m, r

LEMMA WholeFirst ==
    ASSUME NEW us, Framed(us), us # <<>>, us[1].at = 1
    PROVE  Size(us[1].msg) <= Len(us)
<1>1. /\ us \in Seq(Unit) /\ Linked(us) /\ us[Len(us)].at = Size(us[Len(us)].msg)
      /\ Len(us) \in Nat \ {0}
  BY EmptySeq DEF Framed, Linked
<1>2. Size(us[1].msg) \in Nat
  BY Sizes
<1> SUFFICES ASSUME ~(Size(us[1].msg) <= Len(us)) PROVE FALSE
  OBVIOUS
<1>3. us[Len(us)] = [msg |-> us[1].msg, at |-> Len(us)]
  BY <1>1, <1>2, Run
<1> QED  BY <1>1, <1>2, <1>3

\* The receive buffer holds what has come, and the room for the rest of one message.
LEMMA BuffersLen ==
    ASSUME NEW us, Linked(us), us # <<>> => us[1].at = 1
    PROVE  /\ Len(Buffers(us)) \in Nat /\ Len(us) <= Len(Buffers(us))
           /\ us # <<>> => Len(Buffers(us)) <= Len(us) + BlockSize - 1
           /\ us = <<>> => Len(Buffers(us)) = 0
<1> DEFINE p(n) == SubSeq(us, 1, n)
           N == {n \in Nat : n + 1 <= Len(us) =>
                   Len(Buffers(p(n + 1))) = n + 1 + Size(us[n + 1].msg) - us[n + 1].at}
<1>0. us \in Seq(Unit) /\ Len(us) \in Nat /\ p(Len(us)) = us
  BY SubSeqFull DEF Linked
<1>1. CASE us = <<>>
  BY <1>1, OfNothing
<1>2. CASE us # <<>>
  <2>0. /\ Len(us) \in Nat \ {0} /\ \A i \in 1..Len(us) : us[i] \in Unit
        /\ \A i \in 1..(Len(us) - 1) : Follows(us[i], us[i + 1])
    BY <1>0, <1>2, EmptySeq DEF Linked
  <2>9. ASSUME NEW n \in Nat, n + 1 <= Len(us)
        PROVE  /\ p(n) \in Seq(Unit) /\ us[n + 1] \in Unit /\ p(n + 1) = p(n) \o <<us[n + 1]>>
               /\ Len(Buffers(p(n + 1))) = Len(Buffers(p(n))) + IF us[n + 1].at = 1 THEN Size(us[n + 1].msg) ELSE 0
    <3>1. p(n) \in Seq(Unit) /\ us[n + 1] \in Unit /\ p(n + 1) = p(n) \o <<us[n + 1]>>
      BY <1>0, <2>9, Prefix
    <3> HIDE DEF p
    <3> QED  BY <3>1, BuffersConcat
  <2>1. 0 \in N
    <3>1. p(0) = <<>> /\ 0 + 1 <= Len(us)
      BY <2>0, SubSeqEmpty
    <3>2. Len(Buffers(p(0))) = 0
      <4> HIDE DEF p
      <4> QED  BY <3>1, OfNothing
    <3>3. Len(Buffers(p(0 + 1))) = Len(Buffers(p(0))) + Size(us[1].msg)
      <4> HIDE DEF p
      <4>1. 0 \in Nat /\ 0 + 1 = 1 /\ us[1].at = 1
        BY <1>2
      <4>2. Len(Buffers(p(0 + 1))) = Len(Buffers(p(0))) + IF us[0 + 1].at = 1 THEN Size(us[0 + 1].msg) ELSE 0
        BY <2>9, <3>1, <4>1
      <4> QED  BY <4>1, <4>2
    <3>4. us[1].at = 1 /\ Size(us[1].msg) \in Nat
      BY <1>2, Sizes
    <3> HIDE DEF p
    <3> QED  BY <3>2, <3>3, <3>4
  <2>2. ASSUME NEW n \in Nat, n \in N PROVE n + 1 \in N
    <3> SUFFICES ASSUME (n + 1) + 1 <= Len(us)
                 PROVE  Len(Buffers(p((n + 1) + 1))) = (n + 1) + 1 + Size(us[(n + 1) + 1].msg) - us[(n + 1) + 1].at
      OBVIOUS
    <3> DEFINE u == us[n + 1]
               v == us[(n + 1) + 1]
    <3>1. Len(Buffers(p(n + 1))) = n + 1 + Size(u.msg) - u.at
      BY <2>0, <2>2
    <3>2. Len(Buffers(p((n + 1) + 1))) = Len(Buffers(p(n + 1))) + IF v.at = 1 THEN Size(v.msg) ELSE 0
      <4> HIDE DEF p
      <4>1. n + 1 \in Nat
        OBVIOUS
      <4> QED  BY <2>9, <4>1
    <3>3. Follows(u, v) /\ u \in Unit /\ v \in Unit
      BY <2>0
    <3> HIDE DEF p, u, v
    <3>4. u.at \in Nat /\ v.at \in Nat /\ Size(u.msg) \in Nat /\ Size(v.msg) \in Nat /\ 1 <= u.at
      BY <3>3, UnitFacts, Sizes
    <3>5. CASE u.at = Size(u.msg)
      <4>1. v.at = 1
        BY <3>3, <3>5 DEF Follows
      <4>2. Len(Buffers(p((n + 1) + 1))) = (n + 1) + 1 + Size(v.msg) - v.at
        BY <3>1, <3>2, <3>4, <3>5, <4>1
      <4> QED  BY <4>2 DEF v
    <3>6. CASE u.at # Size(u.msg)
      <4>1. v.msg = u.msg /\ v.at = u.at + 1
        BY <3>3, <3>6 DEF Follows
      <4>2. Len(Buffers(p((n + 1) + 1))) = (n + 1) + 1 + Size(v.msg) - v.at
        BY <3>1, <3>2, <3>4, <4>1, SMTT(30)
      <4> QED  BY <4>2 DEF v
    <3> QED  BY <3>5, <3>6
  <2> HIDE DEF N
  <2>3. Len(us) - 1 \in N /\ (Len(us) - 1) + 1 = Len(us)
    <3>1. Nat \subseteq N
      BY <2>1, <2>2, SetInduction
    <3> QED  BY <2>0, <3>1
  <2>4. Len(Buffers(us)) = Len(us) + Size(us[Len(us)].msg) - us[Len(us)].at
    <3>1. Len(Buffers(p(Len(us)))) = Len(us) + Size(us[Len(us)].msg) - us[Len(us)].at
      BY <2>0, <2>3 DEF N
    <3> HIDE DEF p
    <3> QED  BY <1>0, <3>1
  <2>5. /\ us[Len(us)].at \in Nat /\ Size(us[Len(us)].msg) \in Nat /\ 1 <= us[Len(us)].at
        /\ us[Len(us)].at <= Size(us[Len(us)].msg) /\ Size(us[Len(us)].msg) <= BlockSize
    BY <2>0, UnitFacts, Sizes
  <2>6. BlockSize \in Nat
    BY SizesAssumption
  <2> DEFINE x == us[Len(us)].at
             y == Size(us[Len(us)].msg)
             z == Len(Buffers(us))
             w == Len(us)
  <2> HIDE DEF p, x, y, z, w
  <2>7. z = w + y - x /\ w \in Nat /\ x \in Nat /\ y \in Nat /\ 1 <= x /\ x <= y /\ y <= BlockSize
    BY <2>0, <2>4, <2>5 DEF x, y, z, w
  <2>8. z \in Nat /\ w <= z /\ z <= w + BlockSize - 1
    BY <2>6, <2>7
  <2> QED  BY <1>2, <2>8 DEF z, w
<1> QED  BY <1>1, <1>2

\* nSendSize of a queue.
Load(us) == IF us = <<>> THEN 0 ELSE Len(us) + us[1].at - 1

LEMMA LoadIsNat ==
    ASSUME NEW us \in Seq(Unit)
    PROVE  Load(us) \in Nat
  BY UnitFacts, EmptySeq DEF Load

LEMMA LoadPush ==
    ASSUME NEW us \in Seq(Unit), NEW m \in Msg
    PROVE  Load(us \o Units(m)) = Load(us) + Size(m)
<1> DEFINE v == Units(m)
<1>1. v \in Seq(Unit) /\ Len(v) = Size(m) /\ v # <<>> /\ Size(m) \in Nat /\ v[1].at = 1
  <2>1. Size(m) \in Nat /\ 1 \in 1..Size(m)
    BY Sizes
  <2>2. v[1] = [msg |-> m, at |-> 1]
    BY <2>1, UnitsOf
  <2>3. v \in Seq(Unit) /\ Len(v) = Size(m) /\ v # <<>>
    BY UnitsOf
  <2> HIDE DEF v
  <2> QED  BY <2>1, <2>2, <2>3
<1> HIDE DEF v
<1>2. CASE us = <<>>
  BY <1>1, <1>2 DEF Load, v
<1>3. CASE us # <<>>
  <2>1. us \o v # <<>> /\ Len(us \o v) = Len(us) + Len(v) /\ (us \o v)[1] = us[1]
    BY <1>1, <1>3
  <2>2. us[1].at \in Nat /\ Len(us) \in Nat
    BY <1>3, UnitFacts
  <2>3. Load(us) = Len(us) + us[1].at - 1 /\ Load(us \o v) = Len(us \o v) + us[1].at - 1
    BY <1>3, <2>1 DEF Load
  <2> QED  BY <1>1, <2>1, <2>2, <2>3 DEF v
<1> QED  BY <1>2, <1>3

\* The load of a queue without its first unit.
LEMMA LoadOne ==
    ASSUME NEW u \in Unit, NEW v \in Seq(Unit), Linked(<<u>> \o v)
    PROVE  /\ Load(v) <= Load(<<u>> \o v)
           /\ Load(v) - Len(Asks(v)) <= Load(<<u>> \o v) - Len(Asks(<<u>> \o v))
<1> DEFINE w == <<u>> \o v
<1>1. w \in Seq(Unit) /\ Len(w) = Len(v) + 1 /\ w[1] = u /\ Len(v) \in Nat /\ w # <<>>
  OBVIOUS
<1>2. v # <<>> => v[1] = w[2] /\ 1 \in 1..(Len(w) - 1) /\ v[1] \in Unit
  OBVIOUS
<1>3. v # <<>> => Follows(u, v[1])
  <2> HIDE DEF w
  <2>1. \A i \in 1..(Len(w) - 1) : Follows(w[i], w[i + 1])
    BY DEF w, Linked
  <2>2. 1 \in 1..(Len(w) - 1) => Follows(w[1], w[1 + 1])
    BY <2>1
  <2> QED  BY <1>1, <1>2, <2>2
<1>4. Asks(w) = Asks(<<u>>) \o Asks(v) /\ Asks(<<u>>) \in Seq(Unit) /\ Asks(v) \in Seq(Unit)
  <2>1. <<u>> \in Seq(Unit)
    OBVIOUS
  <2> QED  BY <2>1, AsksConcat
<1> HIDE DEF w
<1>5. /\ Len(Asks(w)) = (IF u.msg.type = "getdata" THEN 1 ELSE 0) + Len(Asks(v))
      /\ Len(Asks(v)) \in Nat
  BY <1>4, AsksOne
<1>6. u.at \in Nat /\ 1 <= u.at /\ (u.msg.type = "getdata" => u.at = 1 /\ u.at = Size(u.msg))
  BY UnitFacts
<1>7. Load(w) = Len(v) + u.at
  BY <1>1, <1>6, SMTT(30) DEF Load
<1>8. CASE v = <<>>
  <2>1. Load(v) = 0
    BY <1>8 DEF Load
  <2> QED  BY <1>1, <1>5, <1>6, <1>7, <2>1 DEF w
<1>9. CASE v # <<>>
  <2>1. Load(v) = Len(v) + v[1].at - 1 /\ v[1].at \in Nat
    BY <1>2, <1>9, UnitFacts DEF Load
  <2>2. v[1].at = 1 \/ (u.msg.type # "getdata" /\ v[1].at = u.at + 1)
    BY <1>3, <1>6, <1>9 DEF Follows
  <2>3. Load(v) <= Load(w)
    BY <1>1, <1>6, <1>7, <2>1, <2>2
  <2>4. Load(v) - Len(Asks(v)) <= Load(w) - Len(Asks(w))
    <3> DEFINE g == IF u.msg.type = "getdata" THEN 1 ELSE 0
               A == Len(Asks(v))
               n == Len(v)
               b == v[1].at
    <3>1. g \in {0, 1} /\ (g = 1 => b = 1) /\ b <= u.at + 1 /\ (b = 1 \/ (g = 0 /\ b = u.at + 1))
      BY <1>6, <2>1, <2>2
    <3>2. Len(Asks(w)) = g + A /\ A \in Nat /\ n \in Nat /\ b \in Nat /\ Load(v) = n + b - 1 /\ Load(w) = n + u.at
      BY <1>1, <1>5, <1>7, <2>1
    <3> HIDE DEF g, A, n, b
    <3>3. Load(v) - A <= Load(w) - (g + A)
      BY <1>6, <3>1, <3>2
    <3> QED  BY <3>2, <3>3 DEF A
  <2> QED  BY <2>3, <2>4 DEF w
<1> QED  BY <1>8, <1>9

LEMMA LoadSend ==
    ASSUME NEW us, Linked(us), NEW k \in 0..Len(us)
    PROVE  LET v == SubSeq(us, k + 1, Len(us))
           IN  /\ Load(v) <= Load(us)
               /\ Load(v) - Len(Asks(v)) <= Load(us) - Len(Asks(us))
<1> DEFINE d(n) == SubSeq(us, n + 1, Len(us))
           L(n) == Load(d(n))
           A(n) == Len(Asks(d(n)))
           N == {n \in Nat : n <= Len(us) => L(n) <= L(0) /\ L(n) - A(n) <= L(0) - A(0)}
<1>0. us \in Seq(Unit) /\ Len(us) \in Nat /\ \A n \in 0..Len(us) : d(n) \in Seq(Unit)
  BY Split DEF Linked
<1>1. ASSUME NEW n \in 0..Len(us) PROVE L(n) \in Nat /\ A(n) \in Nat
  <2>1. d(n) \in Seq(Unit)
    BY <1>0
  <2> HIDE DEF d
  <2> QED  BY <2>1, LoadIsNat, AsksCarried
<1>2. d(0) = us
  BY <1>0
<1>3. ASSUME NEW n \in Nat, n + 1 <= Len(us)
      PROVE  L(n + 1) <= L(n) /\ L(n + 1) - A(n + 1) <= L(n) - A(n)
  <2> DEFINE u == us[n + 1]
  <2>1. u \in Unit /\ d(n + 1) \in Seq(Unit) /\ d(n) = <<u>> \o d(n + 1)
    BY <1>0, <1>3, SubSeqRecursiveFirst
  <2>2. Linked(d(n))
    <3>1. n \in 0..Len(us)
      BY <1>0, <1>3
    <3>2. SubSeq(us, 1, n) \in Seq(Unit) /\ d(n) \in Seq(Unit) /\ SubSeq(us, 1, n) \o d(n) = us
      BY <1>0, <3>1, Split
    <3> HIDE DEF d
    <3> QED  BY <3>2, LinkedParts
  <2> HIDE DEF u, d
  <2> QED  BY <2>1, <2>2, LoadOne
<1> HIDE DEF L, A, d
<1>4. 0 \in N
  BY <1>0, <1>1
<1>5. ASSUME NEW n \in Nat, n \in N PROVE n + 1 \in N
  <2> SUFFICES ASSUME n + 1 <= Len(us) PROVE L(n + 1) <= L(0) /\ L(n + 1) - A(n + 1) <= L(0) - A(0)
    OBVIOUS
  <2>1. L(n) <= L(0) /\ L(n) - A(n) <= L(0) - A(0)
    BY <1>0, <1>5
  <2>2. 0 \in 0..Len(us) /\ n \in 0..Len(us) /\ n + 1 \in 0..Len(us)
    BY <1>0
  <2>3. L(0) \in Nat /\ A(0) \in Nat /\ L(n) \in Nat /\ A(n) \in Nat /\ L(n + 1) \in Nat /\ A(n + 1) \in Nat
    BY <1>1, <2>2
  <2> QED  BY <1>3, <2>1, <2>3
<1> HIDE DEF N
<1>6. k \in N
  <2>1. Nat \subseteq N
    BY <1>4, <1>5, SetInduction
  <2> QED  BY <1>0, <2>1
<1>7. L(k) <= L(0) /\ L(k) - A(k) <= L(0) - A(0)
  BY <1>0, <1>6 DEF N
<1>8. L(0) = Load(us) /\ A(0) = Len(Asks(us))
  BY <1>2 DEF L, A
<1> QED  BY <1>7, <1>8 DEF L, A, d

-----------------------------------------------------------------------------
(* What a node sends                                                       *)

\* A node's record and what it has on the wire.
Half == {x \in [s : CNode, w : Seq(Unit)] : Len(x.w) <= PipeSize}

Kept(s, t) ==
    /\ t.vRecvGetData = s.vRecvGetData /\ t.nVersion = s.nVersion /\ t.sel = s.sel
    /\ t.asked = s.asked /\ t.nTimeConnected = s.nTimeConnected
    /\ t.nLastRecv = s.nLastRecv /\ t.nLastSendEmpty = s.nLastSendEmpty
Stays(s, t) == t.hSocket = s.hSocket /\ t.fDisconnect = s.fDisconnect /\ t.vRecvMsg = s.vRecvMsg
Gone(t) == ~t.hSocket /\ t.fDisconnect /\ t.vRecvMsg = <<>>

\* The units q have been added, and some of those in front of them written.
Sends(x, y, q, refused) ==
    /\ y \in Half
    /\ y.w \o y.s.vSendMsg = (x.w \o x.s.vSendMsg) \o q
    /\ Kept(x.s, y.s)
    /\ \/ /\ Stays(x.s, y.s)
          /\ \/ ~refused /\ x.s.hSocket /\ y.s.nLastSend = 0 /\ y.w # <<>>
             \/ y.s.nLastSend = x.s.nLastSend /\ y.w = x.w
       \/ /\ refused /\ x.s.hSocket /\ Gone(y.s)
          /\ y.w = x.w /\ y.s.nLastSend = x.s.nLastSend
    /\ Load(y.s.vSendMsg) <= Load(x.s.vSendMsg) + Len(q)
    /\ Load(y.s.vSendMsg) - Len(Asks(y.s.vSendMsg))
          <= Load(x.s.vSendMsg) - Len(Asks(x.s.vSendMsg)) + Len(q) - Len(Asks(q))

LEMMA NodeFields ==
    ASSUME NEW s \in CNode
    PROVE  /\ s.vSendMsg \in Seq(Unit) /\ s.vRecvMsg \in Seq(Unit) /\ s.vRecvGetData \in Seq(Nat)
           /\ s.nVersion \in BOOLEAN /\ s.hSocket \in BOOLEAN /\ s.fDisconnect \in BOOLEAN
           /\ s.sel \in {"none", "send", "recv"} /\ s.asked \in Nat /\ s.nTimeConnected \in {0, 1}
           /\ s.nLastSend \in Age /\ s.nLastRecv \in Age /\ s.nLastSendEmpty \in Age
  BY DEF CNode

LEMMA Ages == Never \in Age /\ 0 \in Age /\ Age \subseteq Int /\ \A a \in Age : Older(a) \in Age
  BY SizesAssumption DEF Age, Never, Older

LEMMA CloseFacts ==
    ASSUME NEW s \in CNode
    PROVE  LET t == CloseSocketDisconnect(s)
           IN  /\ t \in CNode /\ Gone(t) /\ Kept(s, t)
               /\ t.vSendMsg = s.vSendMsg /\ t.nLastSend = s.nLastSend
<1> DEFINE t == CloseSocketDisconnect(s)
<1>1. t \in CNode
  <2>1. <<>> \in Seq(Unit) /\ TRUE \in BOOLEAN /\ FALSE \in BOOLEAN
    OBVIOUS
  <2>2. t = [s EXCEPT !.fDisconnect = TRUE, !.hSocket = FALSE, !.vRecvMsg = <<>>]
    BY DEF CloseSocketDisconnect
  <2> QED  BY <2>1, <2>2, Zenon DEF CNode
<1>2. Gone(t) /\ Kept(s, t) /\ t.vSendMsg = s.vSendMsg /\ t.nLastSend = s.nLastSend
  BY DEF CloseSocketDisconnect, CNode, Gone, Kept
<1> QED  BY <1>1, <1>2

LEMMA SendData ==
    ASSUME NEW x \in Half, NEW refused \in BOOLEAN, Linked(x.s.vSendMsg), x.s.hSocket
    PROVE  LET y == SocketSendData(x, refused)
           IN  /\ Sends(x, y, <<>>, refused)
               /\ refused => Gone(y.s)
               /\ ~refused /\ Len(x.w) < PipeSize /\ x.s.vSendMsg # <<>> => y.s.nLastSend = 0
<1> DEFINE y == SocketSendData(x, refused)
           s == x.s
           w == x.w
           us == s.vSendMsg
           k == IF PipeSize - Len(w) < Len(us) THEN PipeSize - Len(w) ELSE Len(us)
<1>1. s \in CNode /\ w \in Seq(Unit) /\ Len(w) <= PipeSize /\ us \in Seq(Unit) /\ x = [s |-> s, w |-> w]
  BY NodeFields DEF Half
<1>2. PipeSize \in Nat /\ Len(w) \in Nat /\ Len(us) \in Nat /\ w \o us \in Seq(Unit)
  BY <1>1, SizesAssumption
<1>3. k \in 0..Len(us) /\ Len(w) + k <= PipeSize
  BY <1>1, <1>2
<1>4. /\ Load(us) \in Nat /\ Len(Asks(us)) \in Nat /\ Asks(<<>>) = <<>>
      /\ Load(us) <= Load(us) + Len(<<>>)
      /\ Load(us) - Len(Asks(us)) <= Load(us) - Len(Asks(us)) + Len(<<>>) - Len(Asks(<<>>))
  BY <1>1, LoadIsNat, AsksCarried, OfNothing
<1>5. (w \o us) \o <<>> = w \o us
  BY <1>2
<1>6. CASE refused
  <2> DEFINE t == CloseSocketDisconnect(s)
  <2>1. t \in CNode /\ Gone(t) /\ Kept(s, t) /\ t.vSendMsg = us /\ t.nLastSend = s.nLastSend
    BY <1>1, CloseFacts
  <2>2. y = [s |-> t, w |-> w]
    BY <1>1, <1>6 DEF SocketSendData
  <2> HIDE DEF t, y
  <2>3. y.s = t /\ y.w = w /\ y \in Half
    BY <1>1, <2>1, <2>2 DEF Half
  <2>4. Sends(x, y, <<>>, refused)
    BY <1>4, <1>5, <1>6, <2>1, <2>3 DEF Sends
  <2> QED  BY <1>6, <2>1, <2>3, <2>4 DEF y
<1>7. CASE ~refused /\ k = 0
  <2>1. y = x
    BY <1>7 DEF SocketSendData
  <2> HIDE DEF y
  <2>2. Sends(x, y, <<>>, refused)
    BY <1>4, <1>5, <2>1 DEF Sends, Kept, Stays
  <2>3. ~(Len(w) < PipeSize /\ us # <<>>)
    BY <1>1, <1>2, <1>7
  <2> QED  BY <1>7, <2>2, <2>3 DEF y
<1>8. CASE ~refused /\ k # 0
  <2> DEFINE a == SubSeq(us, 1, k)
             b == SubSeq(us, k + 1, Len(us))
             t == [s EXCEPT !.vSendMsg = b, !.nLastSend = 0]
  <2>1. /\ a \in Seq(Unit) /\ Len(a) = k /\ b \in Seq(Unit) /\ a \o b = us
    BY <1>1, <1>3, Split
  <2>2. /\ Load(b) <= Load(us) /\ Load(b) - Len(Asks(b)) <= Load(us) - Len(Asks(us))
        /\ Load(b) \in Nat /\ Len(Asks(b)) \in Nat
    BY <1>3, <2>1, LoadSend, LoadIsNat, AsksCarried
  <2> HIDE DEF a, b, k
  <2>3. y = [s |-> t, w |-> w \o a]
    BY <1>8 DEF SocketSendData, a, b, k
  <2>4. t \in CNode /\ Kept(s, t) /\ Stays(s, t) /\ t.vSendMsg = b /\ t.nLastSend = 0
    BY <1>1, <2>1, Ages DEF CNode, Kept, Stays
  <2>5. w \o a \in Seq(Unit) /\ Len(w \o a) <= PipeSize /\ w \o a # <<>> /\ (w \o a) \o b = w \o us
    <3> HIDE DEF s, w, us
    <3>1. Len(w \o a) = Len(w) + k /\ w \o a \in Seq(Unit)
      <4>1. w \in Seq(Unit) /\ a \in Seq(Unit) /\ Len(a) = k
        BY <1>1, <2>1
      <4> QED  BY <4>1
    <3>2. k # 0 /\ k \in Nat
      BY <1>3, <1>8
    <3>3. (w \o a) \o b = w \o (a \o b)
      <4>1. w \in Seq(Unit) /\ a \in Seq(Unit) /\ b \in Seq(Unit)
        BY <1>1, <2>1
      <4> QED  BY <4>1, Assoc
    <3>4. w \o a # <<>>
      BY <1>2, <3>1, <3>2
    <3> QED  BY <1>3, <2>1, <3>1, <3>3, <3>4
  <2> HIDE DEF t, y
  <2>6. y.s = t /\ y.w = w \o a /\ y \in Half
    BY <2>3, <2>4, <2>5 DEF Half
  <2>7. Sends(x, y, <<>>, refused)
    <3>1. y.w \o y.s.vSendMsg = (x.w \o x.s.vSendMsg) \o <<>>
      BY <1>5, <2>4, <2>5, <2>6
    <3>2. /\ Load(b) <= Load(us) + Len(<<>>)
          /\ Load(b) - Len(Asks(b)) <= Load(us) - Len(Asks(us)) + Len(<<>>) - Len(Asks(<<>>))
      BY <1>4, <2>2
    <3> QED  BY <1>8, <2>4, <2>5, <2>6, <3>1, <3>2 DEF Sends
  <2> QED  BY <1>8, <2>4, <2>6, <2>7 DEF y
<1> QED  BY <1>6, <1>7, <1>8

LEMMA SendsTwice ==
    ASSUME NEW x \in Half, NEW y, NEW z, NEW q \in Seq(Unit), NEW r \in Seq(Unit), NEW refused \in BOOLEAN,
           Sends(x, y, q, refused), Sends(y, z, r, refused)
    PROVE  Sends(x, z, q \o r, refused)
<1>1. /\ x.s \in CNode /\ x.w \in Seq(Unit) /\ y.s \in CNode /\ y.w \in Seq(Unit) /\ z \in Half
      /\ z.s \in CNode /\ z.w \in Seq(Unit)
  BY DEF Sends, Half
<1>2. x.s.vSendMsg \in Seq(Unit) /\ y.s.vSendMsg \in Seq(Unit) /\ z.s.vSendMsg \in Seq(Unit)
  BY <1>1, NodeFields
<1>3. z.w \o z.s.vSendMsg = (x.w \o x.s.vSendMsg) \o (q \o r)
  <2> DEFINE a == x.w \o x.s.vSendMsg
  <2>1. a \in Seq(Unit)
    BY <1>1, <1>2
  <2>2. z.w \o z.s.vSendMsg = (a \o q) \o r
    BY DEF Sends
  <2> HIDE DEF a
  <2>3. (a \o q) \o r = a \o (q \o r)
    BY <2>1, Assoc
  <2> QED  BY <2>2, <2>3 DEF a
<1>4. Kept(x.s, z.s)
  BY DEF Sends, Kept
<1>5. \/ /\ Stays(x.s, z.s)
         /\ \/ ~refused /\ x.s.hSocket /\ z.s.nLastSend = 0 /\ z.w # <<>>
            \/ z.s.nLastSend = x.s.nLastSend /\ z.w = x.w
      \/ /\ refused /\ x.s.hSocket /\ Gone(z.s)
         /\ z.w = x.w /\ z.s.nLastSend = x.s.nLastSend
  BY DEF Sends, Stays, Gone
<1>6. /\ Load(z.s.vSendMsg) <= Load(x.s.vSendMsg) + Len(q \o r)
      /\ Load(z.s.vSendMsg) - Len(Asks(z.s.vSendMsg))
            <= Load(x.s.vSendMsg) - Len(Asks(x.s.vSendMsg)) + Len(q \o r) - Len(Asks(q \o r))
  <2> DEFINE lx == Load(x.s.vSendMsg)
             ly == Load(y.s.vSendMsg)
             lz == Load(z.s.vSendMsg)
             ax == Len(Asks(x.s.vSendMsg))
             ay == Len(Asks(y.s.vSendMsg))
             az == Len(Asks(z.s.vSendMsg))
             lq == Len(q)
             lr == Len(r)
             aq == Len(Asks(q))
             ar == Len(Asks(r))
  <2>1. lx \in Nat /\ ly \in Nat /\ lz \in Nat
    BY <1>2, LoadIsNat
  <2>6. ax \in Nat /\ ay \in Nat /\ az \in Nat /\ aq \in Nat /\ ar \in Nat
    BY <1>2, AsksCarried
  <2>7. lq \in Nat /\ lr \in Nat
    OBVIOUS
  <2>2. Len(q \o r) = lq + lr
    OBVIOUS
  <2>3. Len(Asks(q \o r)) = aq + ar
    <3>1. Asks(q \o r) = Asks(q) \o Asks(r) /\ Asks(q) \in Seq(Unit) /\ Asks(r) \in Seq(Unit)
      BY AsksConcat
    <3> QED  BY <3>1
  <2>4. /\ ly <= lx + lq /\ ly - ay <= lx - ax + lq - aq
        /\ lz <= ly + lr /\ lz - az <= ly - ay + lr - ar
    BY DEF Sends
  <2> HIDE DEF lx, ly, lz, ax, ay, az, lq, lr, aq, ar
  <2>5. lz <= lx + (lq + lr) /\ lz - az <= lx - ax + (lq + lr) - (aq + ar)
    BY <2>1, <2>4, <2>6, <2>7
  <2> QED  BY <2>2, <2>3, <2>5 DEF lx, lz, ax, az
<1> QED  BY <1>1, <1>3, <1>4, <1>5, <1>6 DEF Sends

LEMMA Push ==
    ASSUME NEW x \in Half, NEW refused \in BOOLEAN, NEW m \in Msg, Framed(x.w \o x.s.vSendMsg)
    PROVE  LET y == PushMessage(x, refused, m)
           IN  /\ Sends(x, y, Units(m), refused)
               /\ Framed(y.w \o y.s.vSendMsg)
               /\ x.s.vSendMsg # <<>> \/ ~x.s.hSocket =>
                     /\ Stays(x.s, y.s) /\ y.w = x.w /\ y.s.nLastSend = x.s.nLastSend
                     /\ y.s.vSendMsg # <<>>
               /\ x.s.vSendMsg = <<>> /\ x.w = <<>> /\ x.s.hSocket /\ ~refused => y.s.nLastSend = 0
<1> DEFINE y == PushMessage(x, refused, m)
           s == x.s
           w == x.w
           us == s.vSendMsg
           q == Units(m)
           t == [s EXCEPT !.vSendMsg = us \o q]
           z == [s |-> t, w |-> w]
<1>1. s \in CNode /\ w \in Seq(Unit) /\ Len(w) <= PipeSize /\ us \in Seq(Unit) /\ x = [s |-> s, w |-> w]
  BY NodeFields DEF Half
<1>2. q \in Seq(Unit) /\ Len(q) = Size(m) /\ q # <<>> /\ Len(q) \in Nat
  BY UnitsOf
<1> HIDE DEF q
<1>3. us \o q \in Seq(Unit) /\ us \o q # <<>> /\ w \o us \in Seq(Unit)
  BY <1>1, <1>2
<1>4. t \in CNode /\ Kept(s, t) /\ Stays(s, t) /\ t.vSendMsg = us \o q /\ t.nLastSend = s.nLastSend
  BY <1>1, <1>3 DEF CNode, Kept, Stays
<1>5. [x EXCEPT !.s.vSendMsg = @ \o Units(m)] = z
  <2>1. [x EXCEPT !.s.vSendMsg = @ \o Units(m)] = [x EXCEPT !.s = [x.s EXCEPT !.vSendMsg = x.s.vSendMsg \o Units(m)]]
    BY Zenon
  <2>2. ASSUME NEW v PROVE [x EXCEPT !.s = v] = [s |-> v, w |-> x.w]
    BY <1>1
  <2> QED  BY <2>1, <2>2, Zenon DEF q
<1>6. w \o (us \o q) = (w \o us) \o q
  <2> HIDE DEF w, us
  <2> QED  BY <1>1, <1>2, Assoc
<1>7. Framed((w \o us) \o q)
  BY FramedPush DEF q
<1>8. Linked(us \o q)
  <2>1. Framed(w \o (us \o q))
    BY <1>6, <1>7
  <2> HIDE DEF w, us
  <2>2. Framed(us \o q)
    BY <1>1, <1>3, <2>1, FramedDrop
  <2> QED  BY <2>2 DEF Framed
<1> HIDE DEF t
<1>9. z \in Half /\ z.s = t /\ z.w = w
  BY <1>1, <1>4 DEF Half
<1>10. Sends(x, z, q, refused)
  <2>1. Load(us \o q) = Load(us) + Len(q)
    BY <1>1, <1>2, LoadPush DEF q
  <2>2. /\ Asks(us \o q) = Asks(us) \o Asks(q) /\ Asks(us) \in Seq(Unit) /\ Asks(q) \in Seq(Unit)
        /\ Load(us) \in Nat
    BY <1>1, <1>2, AsksConcat, LoadIsNat
  <2> DEFINE A == Len(Asks(us))
             aq == Len(Asks(q))
  <2>3. Len(Asks(us \o q)) = A + aq /\ A \in Nat /\ aq \in Nat
    BY <2>2
  <2> HIDE DEF A, aq
  <2>4. /\ Load(us \o q) <= Load(us) + Len(q)
        /\ Load(us \o q) - Len(Asks(us \o q)) <= Load(us) - A + Len(q) - aq
    BY <1>2, <2>1, <2>2, <2>3, SMTT(30)
  <2> HIDE DEF z
  <2> QED  BY <1>4, <1>6, <1>9, <2>4 DEF Sends, A, aq
<1>11. CASE us # <<>> \/ ~s.hSocket
  <2>1. y = z
    BY <1>5, <1>11 DEF PushMessage
  <2> HIDE DEF y, z
  <2>2. Framed(y.w \o y.s.vSendMsg)
    BY <1>4, <1>6, <1>7, <1>9, <2>1
  <2>3. Stays(s, y.s) /\ y.w = w /\ y.s.nLastSend = s.nLastSend /\ y.s.vSendMsg # <<>>
    BY <1>3, <1>4, <1>9, <2>1
  <2> QED  BY <1>10, <1>11, <2>1, <2>2, <2>3 DEF y, q
<1>12. CASE us = <<>> /\ s.hSocket
  <2>1. y = SocketSendData(z, refused)
    BY <1>5, <1>12 DEF PushMessage
  <2> HIDE DEF y, z
  <2>2. z.s.hSocket /\ Linked(z.s.vSendMsg) /\ z.s.vSendMsg # <<>>
    BY <1>3, <1>4, <1>8, <1>9, <1>12 DEF Stays
  <2>3. /\ Sends(z, y, <<>>, refused)
        /\ ~refused /\ Len(z.w) < PipeSize /\ z.s.vSendMsg # <<>> => y.s.nLastSend = 0
    BY <1>9, <2>1, <2>2, SendData
  <2>4. Sends(x, y, q \o <<>>, refused)
    <3>1. <<>> \in Seq(Unit)
      OBVIOUS
    <3> QED  BY <1>2, <1>10, <2>3, <3>1, SendsTwice
  <2>5. q \o <<>> = q
    BY <1>2
  <2>6. Sends(x, y, q, refused)
    BY <2>4, <2>5
  <2>7. Framed(y.w \o y.s.vSendMsg)
    BY <1>7, <2>6 DEF Sends
  <2>8. w = <<>> /\ ~refused => y.s.nLastSend = 0
    BY <1>9, <2>2, <2>3, SizesAssumption
  <2> QED  BY <1>12, <2>6, <2>7, <2>8 DEF y, q
<1>13. s.hSocket \in BOOLEAN
  BY <1>1, NodeFields
<1> QED  BY <1>11, <1>12, <1>13

-----------------------------------------------------------------------------
(* One node's step, as the streams see it                                  *)

\* Messages, from the first unit to the last.
Whole(q) == Framed(q) /\ (q # <<>> => q[1].at = 1)

LEMMA FramedJoin ==
    ASSUME NEW us, Framed(us), NEW q, Whole(q)
    PROVE  Framed(us \o q)
<1>1. us \in Seq(Unit) /\ q \in Seq(Unit) /\ Linked(us) /\ Linked(q)
  BY DEF Whole, Framed, Linked
<1>2. us # <<>> /\ q # <<>> => Follows(us[Len(us)], q[1])
  BY DEF Whole, Framed, Follows
<1>3. Linked(us \o q)
  BY <1>1, <1>2, LinkedJoin
<1>4. CASE q = <<>>
  <2>1. us \o q = us
    BY <1>1, <1>4
  <2> QED  BY <2>1
<1>5. CASE q # <<>>
  <2>1. (us \o q)[Len(us \o q)] = q[Len(q)]
    BY <1>1, <1>5
  <2> QED  BY <1>3, <1>5, <2>1 DEF Framed, Whole
<1> QED  BY <1>4, <1>5

LEMMA WholeNone == Whole(<<>>)
  BY DEF Whole, Framed, Linked

LEMMA WholeUnits ==
    ASSUME NEW m \in Msg
    PROVE  Whole(Units(m)) /\ Units(m)[1] = [msg |-> m, at |-> 1]
<1>1. Framed(<<>>) /\ Units(m) \in Seq(Unit)
  BY UnitsOf, WholeNone DEF Whole
<1>2. <<>> \o Units(m) = Units(m)
  BY <1>1
<1>3. Framed(Units(m))
  BY <1>1, <1>2, FramedPush
<1>4. 1 \in 1..Size(m)
  BY Sizes
<1>5. Units(m)[1] = [msg |-> m, at |-> 1]
  BY <1>4, UnitsOf
<1> QED  BY <1>3, <1>5 DEF Whole

LEMMA WholeJoin ==
    ASSUME NEW q, NEW r, Whole(q), Whole(r), q # <<>>
    PROVE  Whole(q \o r) /\ q \o r # <<>> /\ (q \o r)[1] = q[1]
<1>1. Framed(q \o r)
  BY FramedJoin DEF Whole
<1>2. q \in Seq(Unit) /\ r \in Seq(Unit)
  BY DEF Whole, Framed, Linked
<1>3. q \o r # <<>> /\ (q \o r)[1] = q[1]
  BY <1>2
<1> QED  BY <1>1, <1>3 DEF Whole

LEMMA Peers ==
    ASSUME NEW n \in Node
    PROVE  /\ Peer(n) \in Node /\ Peer(n) # n /\ Peer(Peer(n)) = n
           /\ \A k \in Node : k = n \/ k = Peer(n)
  BY SizesAssumption DEF Node, Peer

LEMMA NodeTypes ==
    ASSUME TypeOK, NEW n \in Node
    PROVE  /\ node[n] \in CNode /\ wire[n] \in Seq(Unit) /\ Len(wire[n]) <= PipeSize
           /\ got[n] \in Seq(Nat)
           /\ node[n].vSendMsg \in Seq(Unit) /\ node[n].vRecvMsg \in Seq(Unit)
           /\ node[n].vRecvGetData \in Seq(Nat) /\ node[n].asked \in Nat
           /\ Here(n) \in Half /\ Refused(n) \in BOOLEAN
<1>1. node[n] \in CNode /\ wire[n] \in Seq(Unit) /\ Len(wire[n]) <= PipeSize /\ got[n] \in Seq(Nat)
  BY DEF TypeOK
<1> QED  BY <1>1, NodeFields DEF Here, Half, Refused

LEMMA StreamTypes ==
    ASSUME TypeOK, NEW n \in Node
    PROVE  Stream(n) \in Seq(Unit) /\ wire[n] \o node[n].vSendMsg \in Seq(Unit)
  BY NodeTypes, Peers DEF Stream

\* n has pushed the messages q, and taken d from what it has received or closed.
Turn(n, q, d) ==
    /\ Whole(q) /\ d \in Seq(Unit)
    /\ node'[n] \in CNode /\ node'[Peer(n)] = node[Peer(n)]
    /\ Stream(n)' = Stream(n) \o q
    /\ \/ /\ node'[n].hSocket = node[n].hSocket
          /\ Stream(Peer(n))' \in Seq(Unit) /\ Stream(Peer(n)) = d \o Stream(Peer(n))'
          /\ d # <<>> /\ Stream(Peer(n))' # <<>> => Stream(Peer(n))'[1].at = 1
       \/ /\ Gone(node'[n])
          /\ Stream(Peer(n))' = wire[Peer(n)] \o node[Peer(n)].vSendMsg

LEMMA FramesStep ==
    ASSUME TypeOK, Frames, NEW n \in Node, NEW q, NEW d, Turn(n, q, d)
    PROVE  Frames'
<1> DEFINE p == Peer(n)
<1>1. p \in Node /\ p # n /\ Peer(p) = n /\ \A k \in Node : k = n \/ k = p
  BY Peers
<1>2. Stream(n) \in Seq(Unit) /\ Stream(p) \in Seq(Unit) /\ q \in Seq(Unit)
  BY <1>1, StreamTypes DEF Turn, Whole, Framed, Linked
<1>3. Framed(Stream(n)') /\ (node'[p].hSocket /\ Stream(n)' # <<>> => Stream(n)'[1].at = 1)
  <2>1. Framed(Stream(n)) /\ (node[p].hSocket /\ Stream(n) # <<>> => Stream(n)[1].at = 1)
    BY DEF Frames
  <2>2. Framed(Stream(n) \o q)
    BY <2>1, FramedJoin DEF Turn
  <2>3. Stream(n) # <<>> => (Stream(n) \o q)[1] = Stream(n)[1]
    BY <1>2
  <2>4. Stream(n) = <<>> => Stream(n) \o q = q
    BY <1>2
  <2> QED  BY <2>1, <2>2, <2>3, <2>4 DEF Turn, Whole
<1>4. Framed(Stream(p)) /\ (node[n].hSocket /\ Stream(p) # <<>> => Stream(p)[1].at = 1)
  BY <1>1 DEF Frames
<1>5. Framed(Stream(p)') /\ (node'[n].hSocket /\ Stream(p)' # <<>> => Stream(p)'[1].at = 1)
  <2>1. CASE node'[n].hSocket = node[n].hSocket /\ Stream(p)' \in Seq(Unit) /\ Stream(p) = d \o Stream(p)'
             /\ (d # <<>> /\ Stream(p)' # <<>> => Stream(p)'[1].at = 1)
    <3>1. d \in Seq(Unit)
      BY DEF Turn
    <3>2. Framed(d \o Stream(p)')
      BY <1>4, <2>1
    <3>3. Framed(Stream(p)')
      BY <2>1, <3>1, <3>2, FramedDrop
    <3>4. d = <<>> => Stream(p) = Stream(p)'
      BY <2>1
    <3> QED  BY <1>4, <2>1, <3>3, <3>4
  <2>2. CASE Gone(node'[n]) /\ Stream(p)' = wire[p] \o node[p].vSendMsg
    <3> DEFINE r == node[n].vRecvMsg
               v == wire[p] \o node[p].vSendMsg
    <3>1. r \in Seq(Unit) /\ v \in Seq(Unit) /\ Stream(p) = r \o v
      BY <1>1, NodeTypes, StreamTypes DEF Stream
    <3> HIDE DEF r, v
    <3>2. Framed(v)
      BY <1>4, <3>1, FramedDrop
    <3> QED  BY <2>2, <3>2 DEF v, Gone
  <2> QED  BY <2>1, <2>2 DEF Turn
<1> QED  BY <1>1, <1>3, <1>5 DEF Frames

\* What n pushes before its peer has its version is the version.
LEMMA GreetingStep ==
    ASSUME TypeOK, Greeting, NEW n \in Node, NEW q, NEW d, Turn(n, q, d),
           node[n].nVersion => node'[n].nVersion,
           ~node'[n].nVersion => node'[n].vRecvGetData = <<>> /\ d = <<>>,
           \/ node[n].nVersion
           \/ q = <<>> /\ ~node'[n].nVersion
           \/ q # <<>> /\ (n = In => q[1].msg.type = "version")
    PROVE  Greeting'
<1> DEFINE p == Peer(n)
<1>1. p \in Node /\ p # n /\ Peer(p) = n /\ \A k \in Node : k = n \/ k = p
  BY Peers
<1>2. Stream(n) \in Seq(Unit) /\ q \in Seq(Unit)
  BY <1>1, StreamTypes DEF Turn, Whole, Framed, Linked
<1>3. ASSUME node'[p].hSocket, ~node'[p].nVersion
      PROVE  IF Stream(n)' = <<>> THEN n = In /\ ~node'[n].nVersion
             ELSE Stream(n)'[1].msg.type = "version"
  <2>1. IF Stream(n) = <<>> THEN n = In /\ ~node[n].nVersion ELSE Stream(n)[1].msg.type = "version"
    BY <1>1, <1>3 DEF Greeting, Turn
  <2>2. Stream(n)' = Stream(n) \o q
    BY DEF Turn
  <2>3. CASE Stream(n) # <<>>
    <3>1. Stream(n) \o q # <<>> /\ (Stream(n) \o q)[1] = Stream(n)[1]
      BY <1>2, <2>3
    <3> QED  BY <2>1, <2>2, <2>3, <3>1
  <2>4. CASE Stream(n) = <<>>
    <3>1. Stream(n) \o q = q
      BY <1>2, <2>4
    <3> QED  BY <2>1, <2>2, <2>4, <3>1
  <2> QED  BY <2>3, <2>4
<1>4. ASSUME node'[n].hSocket, ~node'[n].nVersion
      PROVE  IF Stream(p)' = <<>> THEN p = In /\ ~node'[p].nVersion
             ELSE Stream(p)'[1].msg.type = "version"
  <2>1. node[n].hSocket = node'[n].hSocket /\ Stream(p)' \in Seq(Unit) /\ Stream(p) = d \o Stream(p)'
    BY <1>4 DEF Turn, Gone
  <2>2. Stream(p) = Stream(p)'
    BY <1>4, <2>1
  <2> QED  BY <1>1, <1>4, <2>1, <2>2 DEF Greeting, Turn
<1>5. /\ ~node'[n].nVersion => node'[n].vRecvGetData = <<>>
      /\ ~node'[p].nVersion => node'[p].vRecvGetData = <<>>
  BY <1>1 DEF Greeting, Turn
<1>6. ASSUME NEW k \in Node
      PROVE  /\ ~node'[k].nVersion => node'[k].vRecvGetData = <<>>
             /\ node'[Peer(k)].hSocket /\ ~node'[Peer(k)].nVersion =>
                  IF Stream(k)' = <<>> THEN k = In /\ ~node'[k].nVersion
                  ELSE Stream(k)'[1].msg.type = "version"
  BY <1>1, <1>3, <1>4, <1>5
<1> QED  BY <1>6 DEF Greeting

\* Concatenation of sequences of numbers as an operator of its own, so that the
\* provers see no more of it than the two facts below.
Cat(a, b) == a \o b

LEMMA CatFacts ==
    /\ \A a, b \in Seq(Nat) : Cat(a, b) \in Seq(Nat)
    /\ \A a, b, c \in Seq(Nat) : Cat(Cat(a, b), c) = Cat(a, Cat(b, c))
<1>1. ASSUME NEW a \in Seq(Nat), NEW b \in Seq(Nat) PROVE a \o b \in Seq(Nat)
  OBVIOUS
<1>2. ASSUME NEW a \in Seq(Nat), NEW b \in Seq(Nat), NEW c \in Seq(Nat) PROVE (a \o b) \o c = a \o (b \o c)
  OBVIOUS
<1> QED  BY <1>1, <1>2, Zenon DEF Cat

\* The sequences that Blocks joins.
Tells(g, b, v, r, A) == g \o (b \o (v \o r)) = A

\* What a node receives (db) it has got, and what it asks for (qg) it has asked for.
LEMMA Received ==
    \A g, db, pb, v, ng, qg \in Seq(Nat) : \A A, B :
        Tells(g, Cat(db, pb), v, ng, A) /\ Cat(A, qg) = B => Tells(Cat(g, db), pb, v, Cat(ng, qg), B)
<1> TAKE g, db, pb, v, ng, qg \in Seq(Nat)
<1> TAKE A, B
<1> HAVE Tells(g, Cat(db, pb), v, ng, A) /\ Cat(A, qg) = B
<1>1. Cat(g, Cat(Cat(db, pb), Cat(v, ng))) = A
  BY Zenon DEF Tells, Cat
<1> DEFINE h == Cat(g, db)
           t == Cat(v, ng)
           u == Cat(pb, t)
<1>2. h \in Seq(Nat) /\ t \in Seq(Nat)
  BY CatFacts
<1>3. u \in Seq(Nat)
  BY <1>2, CatFacts
<1> HIDE DEF h, t, u
<1>4. Cat(Cat(db, pb), t) = Cat(db, u)
  BY <1>2, CatFacts DEF u
<1>5. Cat(h, u) = Cat(g, Cat(db, u))
  BY <1>3, CatFacts DEF h
<1>6. Cat(h, u) = A
  BY <1>1, <1>4, <1>5 DEF t
<1>7. Cat(v, Cat(ng, qg)) = Cat(t, qg)
  BY CatFacts DEF t
<1>8. Cat(pb, Cat(t, qg)) = Cat(u, qg)
  BY <1>2, CatFacts DEF u
<1>9. Cat(h, Cat(u, qg)) = Cat(Cat(h, u), qg)
  BY <1>2, <1>3, CatFacts
<1>10. Cat(h, Cat(pb, Cat(v, Cat(ng, qg)))) = B
  BY <1>6, <1>7, <1>8, <1>9
<1> QED  BY <1>10, Zenon DEF Tells, Cat, h

\* What a node pushes (qb) it has taken from its requests, and those that come (dg) it adds.
LEMMA Answered ==
    \A g, nb, v, dg, pg, qb, w \in Seq(Nat) : \A A :
        Tells(g, nb, v, Cat(dg, pg), A) /\ Cat(qb, w) = Cat(v, dg) => Tells(g, Cat(nb, qb), w, pg, A)
<1> TAKE g, nb, v, dg, pg, qb, w \in Seq(Nat)
<1> TAKE A
<1> HAVE Tells(g, nb, v, Cat(dg, pg), A) /\ Cat(qb, w) = Cat(v, dg)
<1>1. Cat(g, Cat(nb, Cat(v, Cat(dg, pg)))) = A
  BY Zenon DEF Tells, Cat
<1> DEFINE t == Cat(w, pg)
<1>2. t \in Seq(Nat)
  BY CatFacts
<1> HIDE DEF t
<1>3. Cat(Cat(nb, qb), t) = Cat(nb, Cat(qb, t))
  BY <1>2, CatFacts
<1>4. Cat(qb, t) = Cat(Cat(qb, w), pg)
  BY CatFacts DEF t
<1>5. Cat(Cat(v, dg), pg) = Cat(v, Cat(dg, pg))
  BY CatFacts
<1>6. Cat(g, Cat(Cat(nb, qb), Cat(w, pg))) = A
  BY <1>1, <1>3, <1>4, <1>5 DEF t
<1> QED  BY <1>6, Zenon DEF Tells, Cat

\* A block is asked for, requested, answered and received.
LEMMA BlocksStep ==
    ASSUME TypeOK, Blocks, NEW n \in Node, NEW q, NEW d, Turn(n, q, d), TypeOK',
           got'[Peer(n)] = got[Peer(n)],
           node'[n].hSocket =>
             /\ got'[n] = got[n] \o Carried(d, "block")
             /\ Carried(q, "block") \o node'[n].vRecvGetData = node[n].vRecvGetData \o Carried(d, "getdata")
             /\ [i \in 1..node[n].asked |-> i] \o Carried(q, "getdata") = [i \in 1..node'[n].asked |-> i]
    PROVE  Blocks'
<1> DEFINE p == Peer(n)
<1>1. p \in Node /\ p # n /\ Peer(p) = n /\ \A k \in Node : k = n \/ k = p
  BY Peers
<1>2. SUFFICES ASSUME node'[n].hSocket, node'[p].hSocket
               PROVE  /\ got'[n] \o (Carried(Stream(p)', "block") \o (node'[p].vRecvGetData
                             \o Carried(Stream(n)', "getdata"))) = [i \in 1..node'[n].asked |-> i]
                      /\ got'[p] \o (Carried(Stream(n)', "block") \o (node'[n].vRecvGetData
                             \o Carried(Stream(p)', "getdata"))) = [i \in 1..node'[p].asked |-> i]
  BY <1>1 DEF Blocks
<1>3. /\ node[n].hSocket /\ node[p].hSocket /\ node'[p] = node[p]
      /\ Stream(p)' \in Seq(Unit) /\ Stream(p) = d \o Stream(p)' /\ Stream(n)' = Stream(n) \o q
      /\ d \in Seq(Unit) /\ q \in Seq(Unit)
  BY <1>2 DEF Turn, Gone, Whole, Framed, Linked
<1>4. Stream(n) \in Seq(Unit) /\ Stream(p) \in Seq(Unit)
  BY <1>1, StreamTypes
<1>5. /\ got[n] \o (Carried(Stream(p), "block") \o (node[p].vRecvGetData
             \o Carried(Stream(n), "getdata"))) = [i \in 1..node[n].asked |-> i]
      /\ got[p] \o (Carried(Stream(n), "block") \o (node[n].vRecvGetData
             \o Carried(Stream(p), "getdata"))) = [i \in 1..node[p].asked |-> i]
  BY <1>1, <1>3 DEF Blocks
<1>6. ASSUME NEW type
      PROVE  /\ Carried(Stream(p), type) = Carried(d, type) \o Carried(Stream(p)', type)
             /\ Carried(Stream(n)', type) = Carried(Stream(n), type) \o Carried(q, type)
  <2> DEFINE r == Stream(p)'
             s == Stream(n)
  <2>1. r \in Seq(Unit) /\ s \in Seq(Unit) /\ d \in Seq(Unit) /\ q \in Seq(Unit)
    BY <1>3, <1>4
  <2> HIDE DEF r, s
  <2>2. Carried(d \o r, type) = Carried(d, type) \o Carried(r, type)
    BY <2>1, CarriedConcat
  <2>3. Carried(s \o q, type) = Carried(s, type) \o Carried(q, type)
    BY <2>1, CarriedConcat, SMTT(30)
  <2> QED  BY <1>3, <2>2, <2>3 DEF r, s
<1> DEFINE gn == got[n]
           gp == got[p]
           vn == node[n].vRecvGetData
           vp == node[p].vRecvGetData
           vn2 == node'[n].vRecvGetData
           db == Carried(d, "block")
           dg == Carried(d, "getdata")
           qb == Carried(q, "block")
           qg == Carried(q, "getdata")
           pb == Carried(Stream(p)', "block")
           pg == Carried(Stream(p)', "getdata")
           nb == Carried(Stream(n), "block")
           ng == Carried(Stream(n), "getdata")
<1>7. gn \in Seq(Nat) /\ gp \in Seq(Nat) /\ vn \in Seq(Nat) /\ vp \in Seq(Nat) /\ vn2 \in Seq(Nat)
  BY <1>1, NodeTypes, NodeFields DEF Turn
<1>8. db \in Seq(Nat) /\ dg \in Seq(Nat) /\ qb \in Seq(Nat) /\ qg \in Seq(Nat)
  BY <1>3, CarriedConcat
<1>9. pb \in Seq(Nat) /\ pg \in Seq(Nat) /\ nb \in Seq(Nat) /\ ng \in Seq(Nat)
  BY <1>3, <1>4, CarriedConcat
<1>10. /\ gn \o ((db \o pb) \o (vp \o ng)) = [i \in 1..node[n].asked |-> i]
       /\ gp \o (nb \o (vn \o (dg \o pg))) = [i \in 1..node[p].asked |-> i]
  BY <1>5, <1>6
<1>11. /\ got'[n] = gn \o db /\ got'[p] = gp /\ node'[p].vRecvGetData = vp /\ node'[p].asked = node[p].asked
       /\ qb \o vn2 = vn \o dg
       /\ [i \in 1..node[n].asked |-> i] \o qg = [i \in 1..node'[n].asked |-> i]
  BY <1>2, <1>3
<1>12. Carried(Stream(n)', "block") = nb \o qb /\ Carried(Stream(n)', "getdata") = ng \o qg
  BY <1>6
<1> HIDE DEF gn, gp, vn, vp, vn2, db, dg, qb, qg, pb, pg, nb, ng
<1>13. (gn \o db) \o (pb \o (vp \o (ng \o qg))) = [i \in 1..node'[n].asked |-> i]
  <2> DEFINE A == [i \in 1..node[n].asked |-> i]
             B == [i \in 1..node'[n].asked |-> i]
  <2>1. Tells(gn, Cat(db, pb), vp, ng, A) /\ Cat(A, qg) = B
    BY <1>10, <1>11, Zenon DEF Tells, Cat
  <2> HIDE DEF A, B
  <2>2. Tells(Cat(gn, db), pb, vp, Cat(ng, qg), B)
    BY <1>7, <1>8, <1>9, <2>1, Received
  <2> QED  BY <2>2, Zenon DEF Tells, Cat, B
<1>14. gp \o ((nb \o qb) \o (vn2 \o pg)) = [i \in 1..node[p].asked |-> i]
  <2> DEFINE A == [i \in 1..node[p].asked |-> i]
  <2>1. Tells(gp, nb, vn, Cat(dg, pg), A) /\ Cat(qb, vn2) = Cat(vn, dg)
    BY <1>10, <1>11, Zenon DEF Tells, Cat
  <2> HIDE DEF A
  <2>2. Tells(gp, Cat(nb, qb), vn2, pg, A)
    BY <1>7, <1>8, <1>9, <2>1, Answered
  <2> QED  BY <2>2, Zenon DEF Tells, Cat, A
<1> QED  BY <1>11, <1>12, <1>13, <1>14, Zenon DEF pb, pg, vn2

-----------------------------------------------------------------------------
(* A node's step that writes, takes a message or closes                    *)

LEMMA UnitAssoc == \A a, b, c \in Seq(Unit) : (a \o b) \o c = a \o (b \o c)
<1>1. ASSUME NEW a \in Seq(Unit), NEW b \in Seq(Unit), NEW c \in Seq(Unit) PROVE (a \o b) \o c = a \o (b \o c)
  BY Assoc
<1> QED  BY <1>1, Zenon

\* What comes after a message begins with a header.
LEMMA AfterMessage ==
    ASSUME NEW m \in Msg, NEW r \in Seq(Unit), Linked(Units(m) \o r), r # <<>>
    PROVE  r[1].at = 1
<1> DEFINE v == Units(m)
           k == Size(m)
           us == v \o r
<1>1. v \in Seq(Unit) /\ Len(v) = k /\ k \in Nat /\ 1 <= k /\ v[k] = [msg |-> m, at |-> k]
  <2>1. k \in Nat /\ 1 <= k /\ k \in 1..k
    BY Sizes
  <2>2. v \in Seq(Unit) /\ Len(v) = k /\ \A i \in 1..k : v[i] = [msg |-> m, at |-> i]
    BY UnitsOf
  <2> HIDE DEF v, k
  <2> QED  BY <2>1, <2>2
<1> HIDE DEF v, k
<1>2. us[k] = v[k] /\ us[k + 1] = r[1] /\ k \in 1..(Len(us) - 1)
  BY <1>1
<1>3. Follows(us[k], us[k + 1])
  <2>1. Linked(us)
    BY DEF v
  <2> HIDE DEF us
  <2> QED  BY <1>2, <2>1 DEF Linked
<1>4. Size(m) = k
  BY DEF k
<1> HIDE DEF us
<1> QED  BY <1>1, <1>2, <1>3, <1>4 DEF Follows

\* There: n's record and what it sends are those of x.
LEMMA ThereFacts ==
    ASSUME TypeOK, NEW n \in Node, NEW x \in Half, There(n, x)
    PROVE  /\ node' \in [Node -> CNode] /\ wire' \in [Node -> Seq(Unit)]
           /\ \A k \in Node : Len(wire'[k]) <= PipeSize
           /\ node'[n] = x.s /\ wire'[n] = x.w
           /\ node'[Peer(n)] = node[Peer(n)] /\ wire'[Peer(n)] = wire[Peer(n)]
           /\ x.s \in CNode /\ x.w \in Seq(Unit)
<1>1. x.s \in CNode /\ x.w \in Seq(Unit) /\ Len(x.w) <= PipeSize
  BY DEF Half
<1>2. node \in [Node -> CNode] /\ wire \in [Node -> Seq(Unit)] /\ \A k \in Node : Len(wire[k]) <= PipeSize
  BY DEF TypeOK
<1>3. node' = [node EXCEPT ![n] = x.s] /\ wire' = [wire EXCEPT ![n] = x.w]
  BY DEF There
<1>4. node' \in [Node -> CNode] /\ wire' \in [Node -> Seq(Unit)]
  BY <1>1, <1>2, <1>3
<1>5. /\ node'[n] = x.s /\ wire'[n] = x.w
      /\ node'[Peer(n)] = node[Peer(n)] /\ wire'[Peer(n)] = wire[Peer(n)]
  BY <1>2, <1>3, Peers
<1>6. \A k \in Node : Len(wire'[k]) <= PipeSize
  <2>1. \A k \in Node : k = n \/ k = Peer(n)
    BY Peers
  <2>2. Len(wire'[n]) <= PipeSize /\ Len(wire'[Peer(n)]) <= PipeSize
    BY <1>1, <1>2, <1>5, Peers
  <2> QED  BY <2>1, <2>2
<1> QED  BY <1>1, <1>4, <1>5, <1>6

LEMMA TurnOf ==
    ASSUME TypeOK, Frames, NEW n \in Node, NEW x \in Half, There(n, x), NEW q, Whole(q), NEW d,
           x.w \o x.s.vSendMsg = (wire[n] \o node[n].vSendMsg) \o q,
           d = <<>> \/ \E m \in Msg : d = Units(m),
           \/ x.s.hSocket = node[n].hSocket /\ node[n].vRecvMsg = d \o x.s.vRecvMsg
           \/ Gone(x.s)
    PROVE  Turn(n, q, d)
<1> DEFINE p == Peer(n)
<1>1. p \in Node /\ p # n /\ Peer(p) = n
  BY Peers
<1>2. /\ node'[n] = x.s /\ wire'[n] = x.w /\ node'[p] = node[p] /\ wire'[p] = wire[p]
      /\ x.s \in CNode /\ x.w \in Seq(Unit)
  BY ThereFacts
<1>3. q \in Seq(Unit) /\ d \in Seq(Unit)
  <2>1. q \in Seq(Unit)
    BY DEF Whole, Framed, Linked
  <2>2. <<>> \in Seq(Unit) /\ \A m \in Msg : Units(m) \in Seq(Unit)
    BY UnitsOf
  <2> QED  BY <2>1, <2>2, Zenon
<1>4. /\ node[n].vRecvMsg \in Seq(Unit) /\ node[p].vRecvMsg \in Seq(Unit) /\ wire[p] \o node[p].vSendMsg \in Seq(Unit)
      /\ wire[n] \o node[n].vSendMsg \in Seq(Unit) /\ x.s.vRecvMsg \in Seq(Unit)
  BY <1>1, <1>2, NodeTypes, NodeFields, StreamTypes
<1>5. /\ Stream(n)' = node[p].vRecvMsg \o (x.w \o x.s.vSendMsg)
      /\ Stream(p)' = x.s.vRecvMsg \o (wire[p] \o node[p].vSendMsg)
      /\ Stream(n) = node[p].vRecvMsg \o (wire[n] \o node[n].vSendMsg)
      /\ Stream(p) = node[n].vRecvMsg \o (wire[p] \o node[p].vSendMsg)
  BY <1>1, <1>2, Zenon DEF Stream, Peer
<1> DEFINE a == node[p].vRecvMsg
           b == wire[n] \o node[n].vSendMsg
           v == wire[p] \o node[p].vSendMsg
           r == x.s.vRecvMsg
<1>6. a \in Seq(Unit) /\ b \in Seq(Unit) /\ v \in Seq(Unit) /\ r \in Seq(Unit)
  BY <1>4
<1>7. /\ Stream(n)' = a \o (b \o q) /\ Stream(n) = a \o b
      /\ Stream(p)' = r \o v /\ Stream(p) = node[n].vRecvMsg \o v
  BY <1>5
<1> HIDE DEF a, b, v, r
<1>8. Stream(n)' = Stream(n) \o q
  <2>1. (a \o b) \o q = a \o (b \o q)
    BY <1>3, <1>6, UnitAssoc, ZenonT(30)
  <2> QED  BY <1>7, <2>1
<1>9. CASE x.s.hSocket = node[n].hSocket /\ node[n].vRecvMsg = d \o x.s.vRecvMsg
  <2>1. r \o v \in Seq(Unit)
    BY <1>6
  <2>2. Stream(p) = d \o (r \o v)
    <3>1. (d \o r) \o v = d \o (r \o v)
      BY <1>3, <1>6, UnitAssoc, Zenon
    <3> QED  BY <1>7, <1>9, <3>1 DEF r
  <2>3. ASSUME d # <<>>, r \o v # <<>> PROVE (r \o v)[1].at = 1
    <3> DEFINE z == r \o v
    <3>1. z \in Seq(Unit) /\ z # <<>>
      BY <2>1, <2>3
    <3>2. Linked(d \o z)
      BY <1>1, <2>2 DEF Frames, Framed
    <3> HIDE DEF z
    <3>3. PICK m \in Msg : d = Units(m)
      BY <2>3
    <3>4. z[1].at = 1
      BY <3>1, <3>2, <3>3, AfterMessage
    <3> QED  BY <3>4 DEF z
  <2> QED  BY <1>2, <1>3, <1>7, <1>8, <1>9, <2>1, <2>2, <2>3 DEF Turn
<1>10. CASE Gone(x.s)
  <2>1. r \o v = v
    BY <1>6, <1>10 DEF Gone, r
  <2> QED  BY <1>2, <1>3, <1>7, <1>8, <1>10, <2>1 DEF Turn, v
<1> QED  BY <1>9, <1>10

\* The message thread: n, which is open, has pushed q and taken d.
Serves(n, x, q, d) ==
    /\ node[n].hSocket /\ ~node[n].fDisconnect
    /\ x \in Half /\ There(n, x) /\ UNCHANGED cut
    /\ Whole(q) /\ (d = <<>> \/ \E m \in Msg : d = Units(m))
    /\ x.w \o x.s.vSendMsg = (wire[n] \o node[n].vSendMsg) \o q
    /\ x.s.sel = node[n].sel /\ x.s.nTimeConnected = node[n].nTimeConnected
    /\ x.s.nLastRecv = node[n].nLastRecv
    /\ \/ /\ x.s.hSocket /\ ~x.s.fDisconnect /\ node[n].vRecvMsg = d \o x.s.vRecvMsg
          /\ \/ ~Refused(n) /\ x.s.nLastSend = 0 /\ x.w # <<>>
             \/ x.s.nLastSend = node[n].nLastSend /\ x.w = wire[n]
       \/ Refused(n) /\ Gone(x.s) /\ node[n].vSendMsg = <<>>
    /\ node[n].vSendMsg # <<>> => x.w = wire[n] /\ x.s.vSendMsg # <<>>
    /\ q # <<>> /\ wire[n] = <<>> /\ node[n].vSendMsg = <<>> /\ ~Refused(n) => x.s.nLastSend = 0
    /\ node[n].nVersion => x.s.nVersion
    /\ ~node[n].nVersion =>
          \/ q = <<>> /\ d = <<>> /\ ~x.s.nVersion /\ x.s.vRecvGetData = <<>>
          \/ q # <<>> /\ x.s.nVersion /\ (n = In => q[1].msg.type = "version")
    /\ d # <<>> => Complete(node[n])
    /\ Load(x.s.vSendMsg) - Len(Asks(x.s.vSendMsg)) < SendBufferSize + Reply
    /\ got' \in [Node -> Seq(Nat)] /\ got'[Peer(n)] = got[Peer(n)]
    /\ x.s.hSocket =>
         /\ got'[n] = got[n] \o Carried(d, "block")
         /\ Carried(q, "block") \o x.s.vRecvGetData = node[n].vRecvGetData \o Carried(d, "getdata")
         /\ [i \in 1..node[n].asked |-> i] \o Carried(q, "getdata") = [i \in 1..x.s.asked |-> i]

LEMMA ServesTypes ==
    ASSUME TypeOK, NEW n \in Node, NEW x, NEW q, NEW d, Serves(n, x, q, d)
    PROVE  TypeOK'
<1>1. x \in Half /\ There(n, x) /\ cut' = cut /\ got' \in [Node -> Seq(Nat)]
  BY DEF Serves
<1>2. /\ node' \in [Node -> CNode] /\ wire' \in [Node -> Seq(Unit)]
      /\ \A k \in Node : Len(wire'[k]) <= PipeSize
  BY <1>1, ThereFacts
<1>3. cut \in BOOLEAN
  BY DEF TypeOK
<1> QED  BY <1>1, <1>2, <1>3 DEF TypeOK

LEMMA ServesTurn ==
    ASSUME TypeOK, Frames, NEW n \in Node, NEW x, NEW q, NEW d, Serves(n, x, q, d)
    PROVE  Turn(n, q, d)
<1>1. x \in Half /\ There(n, x) /\ Whole(q)
  BY DEF Serves
<1>2. x.w \o x.s.vSendMsg = (wire[n] \o node[n].vSendMsg) \o q
  BY DEF Serves
<1>3. d = <<>> \/ \E m \in Msg : d = Units(m)
  BY DEF Serves
<1>4. \/ x.s.hSocket = node[n].hSocket /\ node[n].vRecvMsg = d \o x.s.vRecvMsg
      \/ Gone(x.s)
  <2>1. node[n].hSocket \in BOOLEAN /\ x.s.hSocket \in BOOLEAN
    BY <1>1, NodeTypes, NodeFields DEF Half
  <2> QED  BY <2>1 DEF Serves
<1> QED  BY <1>1, <1>2, <1>3, <1>4, TurnOf

LEMMA ServesShut ==
    ASSUME TypeOK, Shut, NEW n \in Node, NEW x, NEW q, NEW d, Serves(n, x, q, d)
    PROVE  Shut'
<1>1. node'[n] = x.s /\ node'[Peer(n)] = node[Peer(n)]
  BY ThereFacts DEF Serves
<1>2. ~node'[n].hSocket => node'[n].fDisconnect /\ node'[n].vRecvMsg = <<>>
  BY <1>1 DEF Serves, Gone
<1>3. \A k \in Node : k = n \/ k = Peer(n)
  BY Peers
<1> QED  BY <1>1, <1>2, <1>3 DEF Shut

\* The receive buffer of a node gives way to nothing, or to less.
LEMMA BufferedRecv ==
    ASSUME NEW us \in Seq(Unit), NEW vs \in Seq(Unit), NEW d \in Seq(Unit), us = d \o vs
    PROVE  Len(Buffers(vs)) \in Nat /\ Len(Buffers(us)) \in Nat /\ Len(Buffers(vs)) <= Len(Buffers(us))
<1>1. Buffers(d) \in Seq(Unit) /\ Buffers(vs) \in Seq(Unit) /\ Buffers(d \o vs) = Buffers(d) \o Buffers(vs)
  BY BuffersJoin
<1> DEFINE a == Buffers(d)
           b == Buffers(vs)
<1>2. a \in Seq(Unit) /\ b \in Seq(Unit) /\ Buffers(us) = a \o b
  BY <1>1
<1> HIDE DEF a, b
<1>3. Len(a \o b) = Len(a) + Len(b) /\ Len(a) \in Nat /\ Len(b) \in Nat
  BY <1>2
<1>4. Len(b) \in Nat /\ Len(Buffers(us)) \in Nat /\ Len(b) <= Len(Buffers(us))
  BY <1>2, <1>3
<1> QED  BY <1>4 DEF b

LEMMA ServesBuffered ==
    ASSUME TypeOK, Buffered, NEW n \in Node, NEW x, NEW q, NEW d, Serves(n, x, q, d)
    PROVE  Buffered'
<1>1. node'[n] = x.s /\ node'[Peer(n)] = node[Peer(n)] /\ x.s \in CNode
  BY ThereFacts DEF Serves
<1>2. \A k \in Node : k = n \/ k = Peer(n)
  BY Peers
<1>3. nSendSize(x.s) - Len(Asks(x.s.vSendMsg)) < SendBufferSize + Reply
  BY DEF Serves, Load, nSendSize
<1>4. /\ GetTotalRecvSize(x.s) < Flood + Chunk + BlockSize
      /\ x.s.sel = "recv" => ~Complete(x.s) \/ GetTotalRecvSize(x.s) <= ReceiveFloodSize
  <2>1. /\ GetTotalRecvSize(node[n]) < Flood + Chunk + BlockSize
        /\ node[n].sel = "recv" => ~Complete(node[n]) \/ GetTotalRecvSize(node[n]) <= ReceiveFloodSize
    BY DEF Buffered
  <2>2. x.s.sel = node[n].sel
    BY DEF Serves
  <2>3. CASE node[n].vRecvMsg = d \o x.s.vRecvMsg
    <3>1. node[n].vRecvMsg \in Seq(Unit) /\ x.s.vRecvMsg \in Seq(Unit) /\ d \in Seq(Unit)
      <4>1. d \in Seq(Unit)
        <5>1. <<>> \in Seq(Unit) /\ \A m \in Msg : Units(m) \in Seq(Unit)
          BY UnitsOf
        <5>2. d = <<>> \/ \E m \in Msg : d = Units(m)
          BY DEF Serves
        <5> QED  BY <5>1, <5>2, Zenon
      <4> QED  BY <1>1, <4>1, NodeTypes, NodeFields
    <3>2. /\ GetTotalRecvSize(x.s) \in Nat /\ GetTotalRecvSize(node[n]) \in Nat
          /\ GetTotalRecvSize(x.s) <= GetTotalRecvSize(node[n])
      BY <2>3, <3>1, BufferedRecv DEF GetTotalRecvSize
    <3>3. CASE d = <<>>
      <4>1. x.s.vRecvMsg = node[n].vRecvMsg
        BY <2>3, <3>1, <3>3
      <4>2. GetTotalRecvSize(x.s) = GetTotalRecvSize(node[n]) /\ Complete(x.s) = Complete(node[n])
        BY <4>1, Zenon DEF GetTotalRecvSize, Complete
      <4> QED  BY <2>1, <2>2, <4>2
    <3>4. CASE d # <<>>
      <4>1. node[n].sel = "recv" => GetTotalRecvSize(node[n]) <= ReceiveFloodSize
        BY <2>1, <3>4 DEF Serves
      <4> QED  BY <2>1, <2>2, <3>2, <4>1, SizesAssumption DEF Flood
    <3> QED  BY <3>3, <3>4
  <2>4. CASE x.s.vRecvMsg = <<>>
    BY <2>4, OfNothing, SizesAssumption DEF GetTotalRecvSize, Complete, Flood
  <2> QED  BY <2>3, <2>4 DEF Serves, Gone
<1> QED  BY <1>1, <1>2, <1>3, <1>4 DEF Buffered

\* Health, put for one node.
Well(n) ==
    /\ node[n].hSocket /\ ~node[n].fDisconnect
    /\ node[n].nLastSend <= PingInterval + 1 /\ node[n].nLastRecv <= PingInterval + 1
    /\ node[n].nTimeConnected > 0 => Never \notin {node[n].nLastSend, node[n].nLastRecv}
    /\ node[n].nLastSend = Never =>
          n = In /\ ~node[n].nVersion /\ wire[n] = <<>> /\ node[n].vSendMsg = <<>>
    /\ wire[n] = <<>> /\ node[n].nLastSend # Never =>
          node[Peer(n)].nLastRecv # Never /\ node[Peer(n)].nLastRecv <= node[n].nLastSend

LEMMA HealthyWell == (Healthy <=> \A n \in Node : Well(n)) /\ (Healthy' <=> \A n \in Node : Well(n)')
  BY DEF Healthy, Well

\* n has sent or left everything as it was, with nothing in the way.
LEMMA HealthyStep ==
    ASSUME TypeOK, Healthy, NEW n \in Node, NEW x \in Half, There(n, x), x.s.hSocket, ~x.s.fDisconnect, NEW q,
           x.w \o x.s.vSendMsg = (wire[n] \o node[n].vSendMsg) \o q,
           \/ x.s.nLastSend = 0 /\ x.w # <<>>
           \/ x.s.nLastSend = node[n].nLastSend /\ x.w = wire[n],
           x.s.nTimeConnected = node[n].nTimeConnected, x.s.nLastRecv = node[n].nLastRecv,
           q # <<>> /\ wire[n] = <<>> /\ node[n].vSendMsg = <<>> => x.s.nLastSend = 0,
           ~node[n].nVersion /\ q = <<>> => ~x.s.nVersion
    PROVE  Healthy'
<1> DEFINE p == Peer(n)
<1>1. p \in Node /\ p # n /\ Peer(p) = n /\ \A k \in Node : k = n \/ k = p
  BY Peers
<1>2. /\ node'[n] = x.s /\ node'[p] = node[p] /\ x.s \in CNode
      /\ wire'[n] = x.w /\ wire'[p] = wire[p] /\ x.w \in Seq(Unit)
  BY ThereFacts
<1>3. Well(n) /\ Well(p)
  BY <1>1, HealthyWell
<1>5. /\ x.s.hSocket /\ ~x.s.fDisconnect
      /\ \/ x.s.nLastSend = 0 /\ x.w # <<>>
         \/ x.s.nLastSend = node[n].nLastSend /\ x.w = wire[n]
      /\ x.s.nTimeConnected = node[n].nTimeConnected /\ x.s.nLastRecv = node[n].nLastRecv
      /\ q # <<>> /\ wire[n] = <<>> /\ node[n].vSendMsg = <<>> => x.s.nLastSend = 0
      /\ ~node[n].nVersion /\ q = <<>> => ~x.s.nVersion
  OBVIOUS
<1>6. 0 # Never /\ PingInterval \in Nat
  BY SizesAssumption DEF Never
<1>7. ASSUME x.s.nLastSend = Never
      PROVE  n = In /\ ~x.s.nVersion /\ x.w = <<>> /\ x.s.vSendMsg = <<>>
  <2>1. node[n].nLastSend = Never /\ x.w = wire[n]
    BY <1>5, <1>6, <1>7
  <2>2. n = In /\ ~node[n].nVersion /\ wire[n] = <<>> /\ node[n].vSendMsg = <<>>
    BY <1>3, <2>1 DEF Well
  <2>3. q = <<>>
    BY <1>5, <1>6, <1>7, <2>2
  <2>4. <<>> \o x.s.vSendMsg = (<<>> \o <<>>) \o <<>> /\ x.s.vSendMsg \in Seq(Unit)
    BY <1>2, <2>1, <2>2, <2>3, NodeFields
  <2>5. x.s.vSendMsg = <<>>
    BY <2>4
  <2> QED  BY <1>5, <2>1, <2>2, <2>3, <2>5
<1>8. Well(n)'
  <2>2. x.s.nLastSend <= PingInterval + 1 /\ x.s.nLastRecv <= PingInterval + 1
    BY <1>3, <1>5, <1>6 DEF Well
  <2>3. x.s.nTimeConnected > 0 => Never \notin {x.s.nLastSend, x.s.nLastRecv}
    BY <1>3, <1>5, <1>6 DEF Well
  <2>4. x.w = <<>> /\ x.s.nLastSend # Never =>
          node[p].nLastRecv # Never /\ node[p].nLastRecv <= x.s.nLastSend
    BY <1>3, <1>5 DEF Well
  <2> QED  BY <1>2, <1>5, <1>7, <2>2, <2>3, <2>4 DEF Well
<1>9. Well(p)'
  <2>1. node'[p] = node[p] /\ wire'[p] = wire[p] /\ node'[Peer(p)].nLastRecv = node[Peer(p)].nLastRecv
    BY <1>1, <1>2, <1>5
  <2> QED  BY <1>3, <2>1 DEF Well
<1> QED  BY <1>1, <1>8, <1>9, HealthyWell

LEMMA ServesHealthy ==
    ASSUME TypeOK, ~cut, Healthy, NEW n \in Node, NEW x, NEW q, NEW d, Serves(n, x, q, d)
    PROVE  Healthy'
<1>1. ~Refused(n)
  BY Peers DEF Refused, Healthy
<1>2. /\ x \in Half /\ There(n, x) /\ x.s.hSocket /\ ~x.s.fDisconnect
      /\ x.w \o x.s.vSendMsg = (wire[n] \o node[n].vSendMsg) \o q
      /\ \/ x.s.nLastSend = 0 /\ x.w # <<>>
         \/ x.s.nLastSend = node[n].nLastSend /\ x.w = wire[n]
      /\ x.s.nTimeConnected = node[n].nTimeConnected /\ x.s.nLastRecv = node[n].nLastRecv
      /\ q # <<>> /\ wire[n] = <<>> /\ node[n].vSendMsg = <<>> => x.s.nLastSend = 0
      /\ ~node[n].nVersion /\ q = <<>> => ~x.s.nVersion
  BY <1>1 DEF Serves
<1> QED  BY <1>2, HealthyStep

\* A queue that does not move holds what is pushed.
LEMMA ServesCourse ==
    ASSUME TypeOK, Course, NEW n \in Node, NEW x, NEW q, NEW d, Serves(n, x, q, d)
    PROVE  Course'
<1> DEFINE p == Peer(n)
<1>1. p \in Node /\ p # n /\ Peer(p) = n /\ \A k \in Node : k = n \/ k = p
  BY Peers
<1>2. /\ node'[n] = x.s /\ node'[p] = node[p] /\ x.s \in CNode
      /\ wire'[n] = x.w /\ wire'[p] = wire[p] /\ x.w \in Seq(Unit)
  BY ThereFacts DEF Serves
<1>3. cut' = cut
  BY DEF Serves
<1>4. CASE cut
  BY <1>3, <1>4 DEF Course
<1>5. CASE ~cut /\ Healthy
  BY <1>5, ServesHealthy DEF Course
<1>6. ASSUME node[n].vSendMsg # <<>>
      PROVE  x.w = wire[n] /\ x.s.vSendMsg # <<>> /\ x.s.hSocket /\ x.s.sel = node[n].sel /\ node[n].hSocket
  BY <1>6 DEF Serves
<1>7. CASE ~cut /\ Frozen
  <2>1. node[n].vSendMsg # <<>> /\ node[p].vSendMsg # <<>> /\ node[n].hSocket /\ node[p].hSocket
    BY <1>1, <1>7 DEF Frozen, Jammed, SelectSend
  <2>2. ~(Len(wire[n]) < PipeSize) /\ ~(Len(wire[p]) < PipeSize) /\ node[n].sel = "none" /\ node[p].sel = "none"
    BY <1>1, <1>7 DEF Frozen, Jammed, Writeable
  <2>3. /\ node'[n].hSocket /\ node'[p].hSocket /\ node'[n].vSendMsg # <<>> /\ node'[p].vSendMsg # <<>>
        /\ node'[n].sel = "none" /\ node'[p].sel = "none"
        /\ ~(Len(wire'[n]) < PipeSize) /\ ~(Len(wire'[p]) < PipeSize)
    BY <1>2, <1>6, <2>1, <2>2
  <2> QED  BY <1>1, <1>3, <1>7, <2>3 DEF Course, Frozen, Jammed, SelectSend, Writeable, Refused
<1>8. CASE ~cut /\ Over
  <2>1. node[n].hSocket
    BY DEF Serves
  <2>2. ~node[p].hSocket /\ node[n].vSendMsg # <<>> /\ node[n].sel # "recv"
    BY <1>1, <1>8, <2>1 DEF Over
  <2>3. ~node'[p].hSocket /\ node'[n].vSendMsg # <<>> /\ node'[n].sel # "recv"
    BY <1>2, <1>6, <2>2
  <2> QED  BY <1>1, <2>3 DEF Course, Over
<1> QED  BY <1>4, <1>5, <1>7, <1>8 DEF Course

\* The message thread marks a node only when it has closed it.
MarkedClosed(n) == node[n].fDisconnect => ~node[n].hSocket

LEMMA ServesIInv ==
    ASSUME IInv, NEW n \in Node, NEW x, NEW q, NEW d, Serves(n, x, q, d)
    PROVE  IInv' /\ MarkedClosed(n)'
<1>1. TypeOK /\ Frames /\ Shut /\ Greeting /\ Blocks /\ Buffered /\ Course
  BY DEF IInv
<1>2. TypeOK' /\ Turn(n, q, d) /\ Shut' /\ Buffered' /\ Course'
  BY <1>1, ServesTypes, ServesTurn, ServesShut, ServesBuffered, ServesCourse
<1>3. Frames'
  BY <1>1, <1>2, FramesStep
<1>4. node'[n] = x.s
  BY <1>1, ThereFacts DEF Serves
<1>5. /\ node[n].nVersion => node'[n].nVersion
      /\ ~node'[n].nVersion => node'[n].vRecvGetData = <<>> /\ d = <<>>
      /\ \/ node[n].nVersion
         \/ q = <<>> /\ ~node'[n].nVersion
         \/ q # <<>> /\ (n = In => q[1].msg.type = "version")
  BY <1>4 DEF Serves
<1>6. Greeting'
  BY <1>1, <1>2, <1>5, GreetingStep
<1>7. /\ got'[Peer(n)] = got[Peer(n)]
      /\ node'[n].hSocket =>
             /\ got'[n] = got[n] \o Carried(d, "block")
             /\ Carried(q, "block") \o node'[n].vRecvGetData = node[n].vRecvGetData \o Carried(d, "getdata")
             /\ [i \in 1..node[n].asked |-> i] \o Carried(q, "getdata") = [i \in 1..node'[n].asked |-> i]
  BY <1>4, Zenon DEF Serves
<1>8. Blocks'
  BY <1>1, <1>2, <1>7, BlocksStep
<1>9. MarkedClosed(n)'
  BY <1>4 DEF Serves, Gone, MarkedClosed
<1> QED  BY <1>2, <1>3, <1>6, <1>8, <1>9 DEF IInv

-----------------------------------------------------------------------------
(* The actions of the message thread                                       *)

\* Two records that differ in what a message says, not in what the sockets hold.
Alike(s, t) ==
    /\ Stays(s, t) /\ t.vSendMsg = s.vSendMsg /\ t.sel = s.sel
    /\ t.nTimeConnected = s.nTimeConnected /\ t.nLastSend = s.nLastSend /\ t.nLastRecv = s.nLastRecv

\* A queue that moves was empty, and is written at once when the wire is.
Prompt(x, y, q, refused) ==
    /\ x.s.vSendMsg # <<>> => Stays(x.s, y.s) /\ y.w = x.w /\ y.s.vSendMsg # <<>>
    /\ q # <<>> /\ x.s.vSendMsg = <<>> /\ x.w = <<>> /\ ~refused => y.s.nLastSend = 0

\* z is y without the message that has been processed, unless y is closed.
Takes(y, z, r) ==
    /\ z \in Half /\ z.w = y.w /\ z.s.vSendMsg = y.s.vSendMsg /\ Kept(y.s, z.s)
    /\ z.s.hSocket = y.s.hSocket /\ z.s.fDisconnect = y.s.fDisconnect /\ z.s.nLastSend = y.s.nLastSend
    /\ z.s.vRecvMsg = IF y.s.fDisconnect THEN y.s.vRecvMsg ELSE r

LEMMA ServesOf ==
    ASSUME TypeOK, NEW n \in Node, node[n].hSocket, ~node[n].fDisconnect, UNCHANGED cut,
           NEW x \in Half, x.w = wire[n], Alike(node[n], x.s),
           NEW q, Whole(q), NEW y, Sends(x, y, q, Refused(n)), Prompt(x, y, q, Refused(n)),
           NEW d, d = <<>> \/ \E m \in Msg : d = Units(m),
           NEW r, node[n].vRecvMsg = d \o r, NEW z, Takes(y, z, r), There(n, z),
           d # <<>> => Complete(node[n]),
           \/ Load(node[n].vSendMsg) < SendBufferSize /\ Len(q) <= Reply
           \/ Buffered /\ Len(Asks(q)) = Len(q),
           node[n].nVersion => x.s.nVersion,
           ~node[n].nVersion =>
              \/ q = <<>> /\ d = <<>> /\ ~x.s.nVersion /\ x.s.vRecvGetData = <<>>
              \/ q # <<>> /\ x.s.nVersion /\ (n = In => q[1].msg.type = "version"),
           got' \in [Node -> Seq(Nat)], got'[Peer(n)] = got[Peer(n)],
           got'[n] = got[n] \o Carried(d, "block"),
           Carried(q, "block") \o x.s.vRecvGetData = node[n].vRecvGetData \o Carried(d, "getdata"),
           [i \in 1..node[n].asked |-> i] \o Carried(q, "getdata") = [i \in 1..x.s.asked |-> i]
    PROVE  Serves(n, z, q, d)
<1>1. z \in Half /\ z.w = y.w /\ z.s.vSendMsg = y.s.vSendMsg
  BY DEF Takes
<1>2. x.s.vSendMsg = node[n].vSendMsg
  BY DEF Alike
<1>3. z.w \o z.s.vSendMsg = (wire[n] \o node[n].vSendMsg) \o q
  <2>1. y.w \o y.s.vSendMsg = (x.w \o x.s.vSendMsg) \o q
    BY DEF Sends
  <2> QED  BY <1>1, <1>2, <2>1, Zenon
<1>4. /\ z.s.sel = node[n].sel /\ z.s.nTimeConnected = node[n].nTimeConnected /\ z.s.nLastRecv = node[n].nLastRecv
      /\ z.s.nVersion = x.s.nVersion /\ z.s.vRecvGetData = x.s.vRecvGetData /\ z.s.asked = x.s.asked
  BY DEF Sends, Takes, Kept, Alike
<1>5. \/ /\ z.s.hSocket /\ ~z.s.fDisconnect /\ node[n].vRecvMsg = d \o z.s.vRecvMsg
         /\ \/ ~Refused(n) /\ z.s.nLastSend = 0 /\ z.w # <<>>
            \/ z.s.nLastSend = node[n].nLastSend /\ z.w = wire[n]
      \/ Refused(n) /\ Gone(z.s) /\ node[n].vSendMsg = <<>>
  <2>1. CASE Stays(x.s, y.s)
    <3>1. y.s.hSocket /\ ~y.s.fDisconnect
      BY <2>1 DEF Stays, Alike
    <3>2. z.s.hSocket /\ ~z.s.fDisconnect /\ node[n].vRecvMsg = d \o z.s.vRecvMsg /\ z.s.nLastSend = y.s.nLastSend
      BY <3>1, Zenon DEF Takes
    <3>3. \/ ~Refused(n) /\ y.s.nLastSend = 0 /\ y.w # <<>>
          \/ y.s.nLastSend = x.s.nLastSend /\ y.w = x.w
      BY <3>1 DEF Sends, Gone
    <3> QED  BY <1>1, <3>2, <3>3 DEF Alike
  <2>2. CASE ~Stays(x.s, y.s)
    <3>1. Refused(n) /\ Gone(y.s)
      BY <2>2 DEF Sends
    <3>2. node[n].vSendMsg = <<>>
      BY <1>2, <2>2 DEF Prompt
    <3>3. Gone(z.s)
      BY <3>1 DEF Takes, Gone
    <3> QED  BY <3>1, <3>2, <3>3
  <2> QED  BY <2>1, <2>2
<1>6. /\ node[n].vSendMsg # <<>> => z.w = wire[n] /\ z.s.vSendMsg # <<>>
      /\ q # <<>> /\ wire[n] = <<>> /\ node[n].vSendMsg = <<>> /\ ~Refused(n) => z.s.nLastSend = 0
  BY <1>1, <1>2 DEF Prompt, Takes
<1>7. Load(z.s.vSendMsg) - Len(Asks(z.s.vSendMsg)) < SendBufferSize + Reply
  <2> DEFINE ly == Load(y.s.vSendMsg)
             lx == Load(x.s.vSendMsg)
             ay == Len(Asks(y.s.vSendMsg))
             ax == Len(Asks(x.s.vSendMsg))
             aq == Len(Asks(q))
             lq == Len(q)
  <2>1. x.s.vSendMsg \in Seq(Unit) /\ y.s.vSendMsg \in Seq(Unit) /\ q \in Seq(Unit)
    <3>1. x.s \in CNode /\ y.s \in CNode
      BY DEF Sends, Half
    <3> QED  BY <3>1, NodeFields DEF Whole, Framed, Linked
  <2>2. lx \in Nat /\ ly \in Nat /\ ax \in Nat /\ ay \in Nat /\ aq \in Nat /\ lq \in Nat
    <3>1. lx \in Nat /\ ly \in Nat
      BY <2>1, LoadIsNat
    <3>2. ax \in Nat /\ ay \in Nat /\ aq \in Nat
      BY <2>1, AsksCarried
    <3>3. lq \in Nat
      BY <2>1
    <3> QED  BY <3>1, <3>2, <3>3
  <2>3. ly <= lx + lq /\ ly - ay <= lx - ax + lq - aq
    BY DEF Sends
  <2>4. (lx < SendBufferSize /\ lq <= Reply) \/ (lx - ax < SendBufferSize + Reply /\ aq = lq)
    BY <1>2 DEF Buffered, Load, nSendSize
  <2>5. SendBufferSize \in Nat /\ Reply \in Nat
    BY SizesAssumption DEF Reply
  <2> HIDE DEF ly, lx, ay, ax, aq, lq
  <2>6. ly - ay < SendBufferSize + Reply
    BY <2>2, <2>3, <2>4, <2>5
  <2> QED  BY <1>1, <2>6 DEF ly, ay
<1>8. z.s.hSocket =>
         /\ got'[n] = got[n] \o Carried(d, "block")
         /\ Carried(q, "block") \o z.s.vRecvGetData = node[n].vRecvGetData \o Carried(d, "getdata")
         /\ [i \in 1..node[n].asked |-> i] \o Carried(q, "getdata") = [i \in 1..z.s.asked |-> i]
  BY <1>4, Zenon
<1> QED  BY <1>1, <1>3, <1>4, <1>5, <1>6, <1>7, <1>8, Zenon DEF Serves

\* PushMessage in the terms of ServesOf.
LEMMA Pushed ==
    ASSUME TypeOK, Frames, NEW n \in Node, NEW x \in Half, x.w = wire[n], Alike(node[n], x.s), node[n].hSocket,
           NEW m \in Msg
    PROVE  LET y == PushMessage(x, Refused(n), m)
           IN  /\ Sends(x, y, Units(m), Refused(n)) /\ Prompt(x, y, Units(m), Refused(n))
               /\ Framed(y.w \o y.s.vSendMsg)
               /\ Whole(Units(m)) /\ Units(m) # <<>> /\ Units(m)[1] = [msg |-> m, at |-> 1]
               /\ Units(m) \in Seq(Unit) /\ Len(Units(m)) = Size(m)
<1> DEFINE y == PushMessage(x, Refused(n), m)
<1>1. Framed(x.w \o x.s.vSendMsg)
  <2> DEFINE a == node[Peer(n)].vRecvMsg
             b == wire[n] \o node[n].vSendMsg
  <2>1. a \in Seq(Unit) /\ b \in Seq(Unit) /\ Framed(a \o b)
    BY Peers, NodeTypes, StreamTypes DEF Frames, Stream
  <2>2. b = x.w \o x.s.vSendMsg
    BY Zenon DEF Alike
  <2> HIDE DEF a, b
  <2>3. Framed(b)
    BY <2>1, FramedDrop
  <2> QED  BY <2>2, <2>3
<1>2. Refused(n) \in BOOLEAN /\ x.s.hSocket
  BY NodeTypes DEF Alike, Stays
<1>3. /\ Sends(x, y, Units(m), Refused(n)) /\ Framed(y.w \o y.s.vSendMsg)
      /\ x.s.vSendMsg # <<>> \/ ~x.s.hSocket =>
            /\ Stays(x.s, y.s) /\ y.w = x.w /\ y.s.nLastSend = x.s.nLastSend
            /\ y.s.vSendMsg # <<>>
      /\ x.s.vSendMsg = <<>> /\ x.w = <<>> /\ x.s.hSocket /\ ~Refused(n) => y.s.nLastSend = 0
  BY <1>1, <1>2, Push
<1>4. Whole(Units(m)) /\ Units(m)[1] = [msg |-> m, at |-> 1]
  BY WholeUnits
<1>5. Units(m) # <<>> /\ Units(m) \in Seq(Unit) /\ Len(Units(m)) = Size(m)
  BY UnitsOf
<1> QED  BY <1>2, <1>3, <1>4, <1>5 DEF Prompt

\* Nothing is taken.
LEMMA TakesNothing ==
    ASSUME TypeOK, NEW n \in Node, NEW x \in Half, Alike(node[n], x.s), ~node[n].fDisconnect,
           NEW y, NEW q, Sends(x, y, q, Refused(n))
    PROVE  Takes(y, y, node[n].vRecvMsg) /\ node[n].vRecvMsg = <<>> \o node[n].vRecvMsg
<1>1. node[n].vRecvMsg \in Seq(Unit)
  BY NodeTypes
<1>2. node[n].vRecvMsg = <<>> \o node[n].vRecvMsg
  BY <1>1
<1>3. y.s.vRecvMsg = IF y.s.fDisconnect THEN y.s.vRecvMsg ELSE node[n].vRecvMsg
  BY DEF Sends, Stays, Gone, Alike
<1> QED  BY <1>2, <1>3 DEF Takes, Sends, Kept

\* What Here(n) is with another record.
LEMMA HereFacts ==
    ASSUME TypeOK, NEW n \in Node, NEW s \in CNode
    PROVE  LET x == [s |-> s, w |-> wire[n]]
           IN  /\ x \in Half /\ x.s = s /\ x.w = wire[n]
               /\ [Here(n) EXCEPT !.s = s] = x
<1>1. wire[n] \in Seq(Unit) /\ Len(wire[n]) <= PipeSize
  BY NodeTypes
<1> QED  BY <1>1 DEF Half, Here

\* Only a block is got.
LEMMA NothingTaken ==
    ASSUME TypeOK, NEW n \in Node, got' = got
    PROVE  /\ got' \in [Node -> Seq(Nat)] /\ got'[Peer(n)] = got[Peer(n)]
           /\ got'[n] = got[n] \o Carried(<<>>, "block")
           /\ node[n].vRecvGetData \o Carried(<<>>, "getdata") = node[n].vRecvGetData
           /\ \A s \in Seq(Nat) : <<>> \o s = s
           /\ [i \in 1..node[n].asked |-> i] \o <<>> = [i \in 1..node[n].asked |-> i]
<1>1. Carried(<<>>, "block") = <<>> /\ Carried(<<>>, "getdata") = <<>>
  BY OfNothing
<1>2. got[n] \in Seq(Nat) /\ node[n].vRecvGetData \in Seq(Nat) /\ got \in [Node -> Seq(Nat)]
  BY NodeTypes DEF TypeOK
<1>3. got[n] \o <<>> = got[n] /\ node[n].vRecvGetData \o <<>> = node[n].vRecvGetData
  BY <1>2
<1>4. ASSUME NEW s \in Seq(Nat) PROVE <<>> \o s = s
  OBVIOUS
<1>5. [i \in 1..node[n].asked |-> i] \o <<>> = [i \in 1..node[n].asked |-> i]
  <2> DEFINE a == node[n].asked
  <2>1. a \in Nat
    BY NodeTypes
  <2> HIDE DEF a
  <2>2. [i \in 1..a |-> i] \in Seq(Nat)
    BY <2>1
  <2>3. [i \in 1..a |-> i] \o <<>> = [i \in 1..a |-> i]
    BY <2>2
  <2> QED  BY <2>3 DEF a
<1> QED  BY <1>1, <1>2, <1>3, <1>4, <1>5

LEMMA AnswerStep ==
    ASSUME IInv, NEW n \in Node, Answer(n)
    PROVE  IInv' /\ MarkedClosed(n)'
<1>0. TypeOK /\ Frames /\ UNCHANGED cut /\ got' = got /\ node[n].hSocket /\ ~node[n].fDisconnect
  BY DEF IInv, Answer, CanAnswer
<1> DEFINE v == node[n].vRecvGetData
           s == [node[n] EXCEPT !.vRecvGetData = Tail(v)]
           x == [s |-> s, w |-> wire[n]]
           m == [type |-> "block", inv |-> <<Head(v)>>]
           y == PushMessage(x, Refused(n), m)
<1>1. v \in Seq(Nat) /\ v # <<>> /\ Tail(v) \in Seq(Nat) /\ Head(v) \in Nat
  BY <1>0, NodeTypes DEF Answer, CanAnswer
<1>2. s \in CNode /\ Alike(node[n], s) /\ s.vRecvGetData = Tail(v) /\ s.nVersion = node[n].nVersion /\ s.asked = node[n].asked
  <2>1. node[n] \in CNode
    BY <1>0, NodeTypes
  <2> QED  BY <1>1, <2>1 DEF CNode, Alike, Stays
<1>3. m \in Msg /\ m.type = "block" /\ m.inv = <<Head(v)>>
  BY <1>1 DEF Msg, Types
<1>4. x \in Half /\ x.s = s /\ x.w = wire[n]
  BY <1>0, <1>2, HereFacts
<1>5. ProcessGetData(Here(n), Refused(n)) = y
  <2>1. Here(n).s = node[n]
    BY DEF Here
  <2>2. ~(v = <<>> \/ nSendSize(node[n]) >= SendBufferSize)
    <3>1. nSendSize(node[n]) < SendBufferSize /\ nSendSize(node[n]) \in Nat
      BY <1>0, NodeTypes, LoadIsNat DEF Answer, CanAnswer, Load, nSendSize
    <3> QED  BY <1>1, <3>1, SizesAssumption
  <2>3. [Here(n) EXCEPT !.s.vRecvGetData = Tail(@)] = x
    <3>1. [Here(n) EXCEPT !.s.vRecvGetData = Tail(@)] = [Here(n) EXCEPT !.s = [Here(n).s EXCEPT !.vRecvGetData = Tail(Here(n).s.vRecvGetData)]]
      BY Zenon
    <3>2. ASSUME NEW t PROVE [Here(n) EXCEPT !.s = t] = [s |-> t, w |-> wire[n]]
      BY DEF Here
    <3> QED  BY <2>1, <3>1, <3>2, Zenon
  <2> QED  BY <2>1, <2>2, <2>3, Zenon DEF ProcessGetData
<1>6. There(n, y)
  BY <1>5, Zenon DEF Answer
<1> HIDE DEF s, x, y, m, v
<1>7. /\ Sends(x, y, Units(m), Refused(n)) /\ Prompt(x, y, Units(m), Refused(n))
      /\ Whole(Units(m)) /\ Units(m) # <<>> /\ Units(m)[1] = [msg |-> m, at |-> 1] /\ Len(Units(m)) = Size(m)
  BY <1>0, <1>2, <1>3, <1>4, Pushed DEF y
<1>8. Takes(y, y, node[n].vRecvMsg) /\ node[n].vRecvMsg = <<>> \o node[n].vRecvMsg
  BY <1>0, <1>2, <1>4, <1>7, TakesNothing
<1>9. Carried(Units(m), "block") = <<Head(v)>> /\ Carried(Units(m), "getdata") = <<>>
  BY <1>3, CarriedUnits
<1>10. <<Head(v)>> \o Tail(v) = v
  BY <1>1
<1>11. Load(node[n].vSendMsg) < SendBufferSize /\ Len(Units(m)) <= Reply
  BY <1>7, Sizes, SizesAssumption DEF Answer, CanAnswer, nSendSize, Load, Reply
<1>12. node[n].nVersion
  BY <1>1 DEF IInv, Greeting, v
<1>13. Serves(n, y, Units(m), <<>>)
  <2>1. Carried(Units(m), "block") \o x.s.vRecvGetData = node[n].vRecvGetData \o Carried(<<>>, "getdata")
    BY <1>0, <1>2, <1>4, <1>9, <1>10, NothingTaken, Zenon DEF v
  <2>2. [i \in 1..node[n].asked |-> i] \o Carried(Units(m), "getdata") = [i \in 1..x.s.asked |-> i]
    BY <1>0, <1>2, <1>4, <1>9, NothingTaken, Zenon
  <2>3. got' \in [Node -> Seq(Nat)] /\ got'[Peer(n)] = got[Peer(n)] /\ got'[n] = got[n] \o Carried(<<>>, "block")
    BY <1>0, NothingTaken, Zenon
  <2> QED  BY <1>0, <1>2, <1>4, <1>6, <1>7, <1>8, <1>11, <1>12, <2>1, <2>2, <2>3, ServesOf
<1> QED  BY <1>13, ServesIInv

LEMMA PingStep ==
    ASSUME IInv, NEW n \in Node, Ping(n)
    PROVE  IInv' /\ MarkedClosed(n)'
<1>0. TypeOK /\ Frames /\ UNCHANGED cut /\ got' = got /\ node[n].hSocket /\ ~node[n].fDisconnect
  BY DEF IInv, Ping, NeedsPing
<1> DEFINE x == Here(n)
           m == Plain("ping")
           y == PushMessage(x, Refused(n), m)
<1>1. x \in Half /\ x.s = node[n] /\ x.w = wire[n] /\ Alike(node[n], x.s)
  BY <1>0, NodeTypes DEF Here, Alike, Stays
<1>2. m \in Msg /\ m.type = "ping"
  BY DEF Msg, Types, Plain
<1>3. There(n, y) /\ node[n].nVersion /\ node[n].vSendMsg = <<>>
  BY DEF Ping, NeedsPing
<1> HIDE DEF x, m, y
<1>4. /\ Sends(x, y, Units(m), Refused(n)) /\ Prompt(x, y, Units(m), Refused(n))
      /\ Whole(Units(m)) /\ Len(Units(m)) = Size(m)
  BY <1>0, <1>1, <1>2, Pushed DEF y
<1>5. Takes(y, y, node[n].vRecvMsg) /\ node[n].vRecvMsg = <<>> \o node[n].vRecvMsg
  BY <1>0, <1>1, <1>4, TakesNothing
<1>6. Carried(Units(m), "block") = <<>> /\ Carried(Units(m), "getdata") = <<>>
  BY <1>2, CarriedUnits
<1>7. Load(node[n].vSendMsg) < SendBufferSize /\ Len(Units(m)) <= Reply
  BY <1>2, <1>3, <1>4, Sizes, SizesAssumption, SMTT(30) DEF Load, Reply
<1>8. Serves(n, y, Units(m), <<>>)
  <2>1. node[n].vRecvGetData \in Seq(Nat)
    BY <1>0, NodeTypes
  <2>2. Carried(Units(m), "block") \o x.s.vRecvGetData = node[n].vRecvGetData \o Carried(<<>>, "getdata")
    BY <1>0, <1>1, <1>6, <2>1, NothingTaken, Zenon
  <2>3. [i \in 1..node[n].asked |-> i] \o Carried(Units(m), "getdata") = [i \in 1..x.s.asked |-> i]
    BY <1>0, <1>1, <1>6, NothingTaken, Zenon
  <2>4. got' \in [Node -> Seq(Nat)] /\ got'[Peer(n)] = got[Peer(n)] /\ got'[n] = got[n] \o Carried(<<>>, "block")
    BY <1>0, NothingTaken, Zenon
  <2> QED  BY <1>0, <1>1, <1>3, <1>4, <1>5, <1>7, <2>2, <2>3, <2>4, ServesOf
<1> QED  BY <1>8, ServesIInv

LEMMA Further ==
    ASSUME NEW a \in Nat, NEW k \in Nat
    PROVE  [i \in 1..a |-> i] \o [i \in 1..k |-> a + i] = [i \in 1..(a + k) |-> i]
<1> DEFINE s == [i \in 1..a |-> i]
           t == [i \in 1..k |-> a + i]
           u == [i \in 1..(a + k) |-> i]
<1>1. /\ s \in Seq(Nat) /\ Len(s) = a /\ t \in Seq(Nat) /\ Len(t) = k /\ u \in Seq(Nat) /\ Len(u) = a + k
      /\ \A i \in 1..a : s[i] = i
      /\ \A i \in 1..k : t[i] = a + i
      /\ \A i \in 1..(a + k) : u[i] = i
  OBVIOUS
<1> HIDE DEF s, t, u
<1>2. s \o t \in Seq(Nat) /\ Len(s \o t) = a + k
  BY <1>1
<1>3. ASSUME NEW i \in 1..(a + k) PROVE (s \o t)[i] = u[i]
  <2>1. (s \o t)[i] = IF i <= a THEN s[i] ELSE t[i - a]
    BY <1>1, SMTT(30)
  <2>2. ~(i <= a) => i - a \in 1..k /\ a + (i - a) = i
    OBVIOUS
  <2> QED  BY <1>1, <2>1, <2>2
<1>4. s \o t = u
  BY <1>1, <1>2, <1>3, SeqEqual
<1> QED  BY <1>4 DEF s, t, u

LEMMA Single ==
    ASSUME NEW q \in Seq(Unit), Len(q) = 1
    PROVE  q = <<q[1]>> /\ q[1] \in Unit
<1>1. q[1] \in Unit
  OBVIOUS
<1>2. <<q[1]>> \in Seq(Unit) /\ Len(<<q[1]>>) = 1 /\ \A i \in 1..1 : <<q[1]>>[i] = q[i]
  BY <1>1
<1> QED  BY <1>1, <1>2, SeqEqual

LEMMA AskStep ==
    ASSUME IInv, NEW n \in Node, Ask(n)
    PROVE  IInv' /\ MarkedClosed(n)'
<1>0. TypeOK /\ Frames /\ UNCHANGED cut /\ got' = got /\ node[n].hSocket /\ ~node[n].fDisconnect /\ node[n].nVersion
  BY DEF IInv, Ask
<1> DEFINE a == node[n].asked
<1>1. PICK k \in 1..(MaxAsk[n] - a) :
         There(n, PushMessage([Here(n) EXCEPT !.s.asked = @ + k], Refused(n),
                    [type |-> "getdata", inv |-> [i \in 1..k |-> a + i]]))
  BY DEF Ask
<1> DEFINE s == [node[n] EXCEPT !.asked = a + k]
           x == [s |-> s, w |-> wire[n]]
           inv == [i \in 1..k |-> a + i]
           m == [type |-> "getdata", inv |-> inv]
           y == PushMessage(x, Refused(n), m)
<1>2. a \in Nat /\ node[n] \in CNode
  BY <1>0, NodeTypes
<1>3. k \in Nat /\ k >= 1 /\ a + k \in Nat
  <2>1. MaxAsk[n] \in Nat
    BY SizesAssumption DEF Node
  <2> QED  BY <1>2, <2>1
<1>4. s \in CNode /\ Alike(node[n], s) /\ s.vRecvGetData = node[n].vRecvGetData /\ s.nVersion = node[n].nVersion /\ s.asked = a + k
  <2> HIDE DEF a
  <2> QED  BY <1>2, <1>3 DEF CNode, Alike, Stays
<1>5. m \in Msg /\ m.type = "getdata" /\ m.inv = inv
  <2>1. inv \in Seq(Nat) /\ Len(inv) = k
    BY <1>2, <1>3
  <2> HIDE DEF inv
  <2>2. inv # <<>>
    BY <1>3, <2>1
  <2> QED  BY <2>1, <2>2 DEF Msg, Types
<1>6. x \in Half /\ x.s = s /\ x.w = wire[n]
  BY <1>0, <1>4, HereFacts
<1>7. There(n, y)
  <2>1. Here(n).s = node[n]
    BY DEF Here
  <2>2. [Here(n) EXCEPT !.s.asked = @ + k] = [Here(n) EXCEPT !.s = [Here(n).s EXCEPT !.asked = Here(n).s.asked + k]]
    BY Zenon
  <2>3. ASSUME NEW t PROVE [Here(n) EXCEPT !.s = t] = [s |-> t, w |-> wire[n]]
    BY DEF Here
  <2>4. [Here(n) EXCEPT !.s.asked = @ + k] = x
    BY <2>1, <2>2, <2>3, Zenon
  <2> QED  BY <1>1, <2>4, Zenon
<1>8. [i \in 1..a |-> i] \o inv = [i \in 1..(a + k) |-> i]
  BY <1>2, <1>3, Further
<1> HIDE DEF a, s, x, inv, m, y
<1>9. /\ Sends(x, y, Units(m), Refused(n)) /\ Prompt(x, y, Units(m), Refused(n))
      /\ Whole(Units(m)) /\ Len(Units(m)) = Size(m) /\ Units(m)[1] = [msg |-> m, at |-> 1] /\ Units(m) \in Seq(Unit)
  BY <1>0, <1>4, <1>5, <1>6, Pushed DEF y
<1>10. Takes(y, y, node[n].vRecvMsg) /\ node[n].vRecvMsg = <<>> \o node[n].vRecvMsg
  BY <1>0, <1>4, <1>6, <1>9, TakesNothing
<1>11. Carried(Units(m), "block") = <<>> /\ Carried(Units(m), "getdata") = inv
  BY <1>5, CarriedUnits
<1>12. Buffered /\ Len(Asks(Units(m))) = Len(Units(m))
  <2> DEFINE q == Units(m)
             u == [msg |-> m, at |-> 1]
  <2>1. q \in Seq(Unit) /\ Len(q) = 1 /\ q[1] = u
    BY <1>5, <1>9, Sizes
  <2>2. u.msg.type = "getdata"
    BY <1>5
  <2> HIDE DEF q, u
  <2>3. q = <<u>> /\ u \in Unit
    BY <2>1, Single
  <2>4. Len(Asks(<<u>>)) = 1
    BY <2>2, <2>3, AsksOne
  <2> QED  BY <2>1, <2>3, <2>4 DEF IInv, q
<1>13. Serves(n, y, Units(m), <<>>)
  <2>1. node[n].vRecvGetData \in Seq(Nat)
    BY <1>0, NodeTypes
  <2>2. Carried(Units(m), "block") \o x.s.vRecvGetData = node[n].vRecvGetData \o Carried(<<>>, "getdata")
    BY <1>0, <1>4, <1>6, <1>11, <2>1, NothingTaken, Zenon
  <2>3. [i \in 1..node[n].asked |-> i] \o Carried(Units(m), "getdata") = [i \in 1..x.s.asked |-> i]
    BY <1>4, <1>6, <1>8, <1>11, Zenon DEF a
  <2>4. got' \in [Node -> Seq(Nat)] /\ got'[Peer(n)] = got[Peer(n)] /\ got'[n] = got[n] \o Carried(<<>>, "block")
    BY <1>0, NothingTaken, Zenon
  <2>5. node[n].nVersion => x.s.nVersion
    BY <1>4, <1>6
  <2> QED  BY <1>0, <1>4, <1>6, <1>7, <1>9, <1>10, <1>12, <2>2, <2>3, <2>4, <2>5, ServesOf
<1> QED  BY <1>13, ServesIInv

\* The message that is processed is the first of what has been received.
LEMMA Received1 ==
    ASSUME IInv, NEW n \in Node, CanProcess(n)
    PROVE  LET us == node[n].vRecvMsg
               m == us[1].msg
               r == SubSeq(us, Size(m) + 1, Len(us))
           IN  /\ m \in Msg /\ r \in Seq(Unit) /\ us = Units(m) \o r
               /\ ~node[n].nVersion => m.type = "version"
<1> DEFINE p == Peer(n)
           us == node[n].vRecvMsg
           v == wire[p] \o node[p].vSendMsg
           m == us[1].msg
           r == SubSeq(us, Size(m) + 1, Len(us))
<1>1. p \in Node /\ Peer(p) = n
  BY Peers
<1>2. us \in Seq(Unit) /\ v \in Seq(Unit) /\ Stream(p) = us \o v
  <2>1. TypeOK
    BY DEF IInv
  <2>2. us \in Seq(Unit) /\ v \in Seq(Unit)
    BY <1>1, <2>1, NodeTypes, StreamTypes
  <2> QED  BY <1>1, <2>2 DEF Stream
<1>3. node[n].hSocket /\ us # <<>> /\ Len(us) >= Size(m)
  BY DEF CanProcess, Complete
<1>4. Framed(us \o v) /\ (us \o v # <<>> => (us \o v)[1].at = 1)
  BY <1>1, <1>2, <1>3 DEF IInv, Frames
<1>5. ~node[n].nVersion /\ us \o v # <<>> => (us \o v)[1].msg.type = "version"
  BY <1>1, <1>2, <1>3 DEF IInv, Greeting
<1> HIDE DEF us, v
<1>6. us \o v # <<>> /\ (us \o v)[1] = us[1]
  BY <1>2, <1>3
<1>7. Linked(us) /\ us[1].at = 1
  BY <1>2, <1>4, <1>6, LinkedParts DEF Framed
<1>8. Size(m) <= Len(us)
  BY <1>2, <1>3, Sizes
<1>9. m \in Msg /\ r \in Seq(Unit) /\ us = Units(m) \o r
  BY <1>3, <1>7, <1>8, FirstMessage
<1> QED  BY <1>5, <1>6, <1>9 DEF us

\* ProcessMessages, once what the message made n push is known.
LEMMA ProcessServes ==
    ASSUME IInv, NEW n \in Node, ProcessMessages(n), NEW m, m = node[n].vRecvMsg[1].msg,
           NEW x \in Half, x.w = wire[n], Alike(node[n], x.s), x.s.asked = node[n].asked,
           NEW q, Whole(q), Len(q) <= Reply,
           NEW y, Sends(x, y, q, Refused(n)), Prompt(x, y, q, Refused(n)),
           ProcessMessage(n, Here(n), Refused(n), m) = y,
           node[n].nVersion => x.s.nVersion,
           ~node[n].nVersion => q # <<>> /\ x.s.nVersion /\ (n = In => q[1].msg.type = "version"),
           Carried(q, "getdata") = <<>>,
           Carried(q, "block") \o x.s.vRecvGetData = IF m.type = "getdata" THEN m.inv ELSE <<>>
    PROVE  IInv' /\ MarkedClosed(n)'
<1> DEFINE us == node[n].vRecvMsg
           r == SubSeq(us, Size(m) + 1, Len(us))
           d == Units(m)
           z == IF y.s.fDisconnect THEN y ELSE [y EXCEPT !.s.vRecvMsg = SubSeq(@, Size(m) + 1, Len(@))]
<1>1. CanProcess(n) /\ There(n, z) /\ UNCHANGED cut
  BY Zenon DEF ProcessMessages
<1>2. /\ node[n].hSocket /\ ~node[n].fDisconnect /\ node[n].vRecvGetData = <<>> /\ Complete(node[n])
      /\ Load(node[n].vSendMsg) < SendBufferSize
  BY <1>1 DEF CanProcess, Load, nSendSize
<1>3. m \in Msg /\ r \in Seq(Unit) /\ us = d \o r
  BY <1>1, Received1
<1>4. TypeOK /\ Frames /\ Buffered
  BY DEF IInv
<1>5. y \in Half /\ y.s \in CNode /\ y = [s |-> y.s, w |-> y.w] /\ y.w \in Seq(Unit) /\ Len(y.w) <= PipeSize
  BY DEF Sends, Half
<1>6. Takes(y, z, r)
  <2>1. CASE y.s.fDisconnect
    <3>1. z = y
      BY <2>1
    <3> HIDE DEF z, r
    <3> QED  BY <1>5, <2>1, <3>1 DEF Takes, Kept
  <2>2. CASE ~y.s.fDisconnect
    <3>1. y.s.vRecvMsg = us
      BY <2>2 DEF Sends, Stays, Gone, Alike
    <3> DEFINE t == [y.s EXCEPT !.vRecvMsg = r]
    <3>2. z = [s |-> t, w |-> y.w]
      <4>1. z = [y EXCEPT !.s.vRecvMsg = SubSeq(@, Size(m) + 1, Len(@))]
        BY <2>2
      <4>2. [y EXCEPT !.s.vRecvMsg = SubSeq(@, Size(m) + 1, Len(@))]
            = [y EXCEPT !.s = [y.s EXCEPT !.vRecvMsg = SubSeq(y.s.vRecvMsg, Size(m) + 1, Len(y.s.vRecvMsg))]]
        BY Zenon
      <4>3. ASSUME NEW u PROVE [y EXCEPT !.s = u] = [s |-> u, w |-> y.w]
        BY <1>5
      <4>4. SubSeq(y.s.vRecvMsg, Size(m) + 1, Len(y.s.vRecvMsg)) = r
        BY <3>1, Zenon
      <4> HIDE DEF z, r
      <4>5. z = [y EXCEPT !.s = t]
        BY <4>1, <4>2, <4>4, Zenon
      <4> HIDE DEF t
      <4> QED  BY <4>3, <4>5, Zenon
    <3> HIDE DEF z, r
    <3>3. /\ t \in CNode /\ t.vSendMsg = y.s.vSendMsg /\ Kept(y.s, t) /\ t.hSocket = y.s.hSocket
          /\ t.fDisconnect = y.s.fDisconnect /\ t.nLastSend = y.s.nLastSend /\ t.vRecvMsg = r
      BY <1>3, <1>5 DEF CNode, Kept
    <3> HIDE DEF t
    <3>4. z \in Half /\ z.w = y.w /\ z.s = t
      BY <1>5, <3>2, <3>3 DEF Half
    <3> QED  BY <2>2, <3>3, <3>4 DEF Takes
  <2> QED  BY <2>1, <2>2
<1>7. /\ got' \in [Node -> Seq(Nat)] /\ got'[Peer(n)] = got[Peer(n)]
      /\ got'[n] = got[n] \o Carried(d, "block")
  <2>1. got \in [Node -> Seq(Nat)] /\ got[n] \in Seq(Nat) /\ Peer(n) # n /\ Peer(n) \in Node
    BY <1>4, NodeTypes, Peers DEF TypeOK
  <2>2. got' = IF m.type = "block" THEN [got EXCEPT ![n] = got[n] \o m.inv] ELSE got
    BY DEF ProcessMessages
  <2>3. Carried(d, "block") = IF m.type = "block" THEN m.inv ELSE <<>>
    BY <1>3, CarriedUnits
  <2>4. m.inv \in Seq(Nat)
    BY <1>3 DEF Msg
  <2> DEFINE c == Carried(d, "block")
  <2> HIDE DEF c
  <2>5. CASE m.type = "block"
    <3>1. got' = [got EXCEPT ![n] = got[n] \o m.inv] /\ c = m.inv /\ got[n] \o m.inv \in Seq(Nat)
      BY <2>1, <2>2, <2>3, <2>4, <2>5 DEF c
    <3> QED  BY <2>1, <3>1 DEF c
  <2>6. CASE m.type # "block"
    <3>1. got' = got /\ c = <<>> /\ got[n] \o <<>> = got[n]
      BY <2>1, <2>2, <2>3, <2>6 DEF c
    <3> QED  BY <2>1, <3>1 DEF c
  <2> QED  BY <2>5, <2>6
<1>8. Carried(q, "block") \o x.s.vRecvGetData = node[n].vRecvGetData \o Carried(d, "getdata")
  <2>1. Carried(d, "getdata") = IF m.type = "getdata" THEN m.inv ELSE <<>>
    BY <1>3, CarriedUnits
  <2>2. Carried(d, "getdata") \in Seq(Nat)
    <3>1. d \in Seq(Unit)
      BY <1>3, UnitsOf
    <3> HIDE DEF d
    <3> QED  BY <3>1, CarriedConcat
  <2> DEFINE c == Carried(d, "getdata")
  <2> HIDE DEF c
  <2>3. <<>> \o c = c
    BY <2>2 DEF c
  <2> QED  BY <1>2, <2>1, <2>3, Zenon DEF c
<1>9. [i \in 1..node[n].asked |-> i] \o Carried(q, "getdata") = [i \in 1..x.s.asked |-> i]
  <2> DEFINE a == node[n].asked
  <2>1. a \in Nat
    BY <1>4, NodeTypes
  <2> HIDE DEF a
  <2>2. [i \in 1..a |-> i] \in Seq(Nat)
    BY <2>1
  <2>3. [i \in 1..a |-> i] \o <<>> = [i \in 1..a |-> i]
    BY <2>2
  <2> QED  BY <2>3, Zenon DEF a
<1> HIDE DEF z, r, d
<1>10. d = <<>> \/ \E k \in Msg : d = Units(k)
  BY <1>3 DEF d
<1>11. Serves(n, z, q, d)
  BY <1>1, <1>2, <1>3, <1>4, <1>6, <1>7, <1>8, <1>9, <1>10, ServesOf
<1> QED  BY <1>11, ServesIInv

LEMMA SendsNone ==
    ASSUME NEW x \in Half, NEW refused \in BOOLEAN
    PROVE  Sends(x, x, <<>>, refused) /\ Prompt(x, x, <<>>, refused)
<1> DEFINE v == x.s.vSendMsg
           a == x.w \o v
<1>1. x.s \in CNode /\ x.w \in Seq(Unit)
  BY DEF Half
<1>2. v \in Seq(Unit)
  BY <1>1, NodeFields
<1>3. a \in Seq(Unit)
  BY <1>1, <1>2
<1> HIDE DEF a
<1>4. a = a \o <<>>
  BY <1>3
<1>5. Load(v) \in Nat /\ Len(Asks(v)) \in Nat
  BY <1>2, LoadIsNat, AsksCarried
<1>6. Load(v) <= Load(v) + Len(<<>>) /\ Load(v) - Len(Asks(v)) <= Load(v) - Len(Asks(v)) + Len(<<>>) - Len(Asks(<<>>))
  <2> DEFINE l == Load(v)
             k == Len(Asks(v))
  <2>1. l \in Nat /\ k \in Nat /\ Len(Asks(<<>>)) = 0 /\ Len(<<>>) = 0
    BY <1>5, OfNothing
  <2> HIDE DEF l, k
  <2>2. l <= l + 0 /\ l - k <= l - k + 0 - 0
    BY <2>1
  <2> QED  BY <2>1, <2>2 DEF l, k
<1>7. Kept(x.s, x.s) /\ Stays(x.s, x.s)
  BY DEF Kept, Stays
<1> QED  BY <1>4, <1>6, <1>7 DEF Sends, Prompt, a

\* Greet pushes a version, when n is the node that accepted, and a verack.
LEMMA GreetSends ==
    ASSUME TypeOK, Frames, NEW n \in Node, node[n].hSocket
    PROVE  LET x == [s |-> [node[n] EXCEPT !.nVersion = TRUE], w |-> wire[n]]
               y == Greet(n, Here(n), Refused(n))
               q == IF n = In THEN Units(Plain("version")) \o Units(Plain("verack")) ELSE Units(Plain("verack"))
           IN  /\ x \in Half /\ x.w = wire[n] /\ Alike(node[n], x.s) /\ x.s.asked = node[n].asked /\ x.s.nVersion
               /\ x.s.vRecvGetData = node[n].vRecvGetData
               /\ Whole(q) /\ q # <<>> /\ Len(q) <= Reply /\ (n = In => q[1].msg.type = "version")
               /\ Carried(q, "getdata") = <<>> /\ Carried(q, "block") = <<>>
               /\ Sends(x, y, q, Refused(n)) /\ Prompt(x, y, q, Refused(n))
<1> DEFINE s == [node[n] EXCEPT !.nVersion = TRUE]
           x == [s |-> s, w |-> wire[n]]
           y == Greet(n, Here(n), Refused(n))
           a == Plain("version")
           b == Plain("verack")
           u == PushMessage(x, Refused(n), a)
<1>1. node[n] \in CNode /\ Refused(n) \in BOOLEAN
  BY NodeTypes
<1>2. s \in CNode /\ Alike(node[n], s) /\ s.asked = node[n].asked /\ s.nVersion /\ s.vRecvGetData = node[n].vRecvGetData
  <2>1. TRUE \in BOOLEAN
    OBVIOUS
  <2>2. s \in CNode
    BY <1>1, <2>1, Zenon DEF CNode
  <2>3. Alike(node[n], s) /\ s.asked = node[n].asked /\ s.nVersion /\ s.vRecvGetData = node[n].vRecvGetData
    BY <1>1 DEF CNode, Alike, Stays
  <2> QED  BY <2>2, <2>3
<1>3. x \in Half /\ x.s = s /\ x.w = wire[n]
  BY <1>2, HereFacts
<1>4. a \in Msg /\ b \in Msg /\ a.type = "version" /\ b.type = "verack"
  BY DEF Msg, Types, Plain
<1>5. y = PushMessage(IF n = In THEN u ELSE x, Refused(n), b)
  <2>1. Here(n).s = node[n]
    BY DEF Here
  <2>2. [Here(n) EXCEPT !.s.nVersion = TRUE] = [Here(n) EXCEPT !.s = [Here(n).s EXCEPT !.nVersion = TRUE]]
    BY Zenon
  <2>3. ASSUME NEW t PROVE [Here(n) EXCEPT !.s = t] = [s |-> t, w |-> wire[n]]
    BY DEF Here
  <2>4. [Here(n) EXCEPT !.s.nVersion = TRUE] = x
    BY <2>1, <2>2, <2>3, Zenon
  <2> QED  BY <2>4, Zenon DEF Greet
<1> HIDE DEF s, x, y, a, b, u
<1>6. /\ Sends(x, u, Units(a), Refused(n)) /\ Prompt(x, u, Units(a), Refused(n)) /\ Framed(u.w \o u.s.vSendMsg)
      /\ Whole(Units(a)) /\ Units(a) # <<>> /\ Units(a)[1] = [msg |-> a, at |-> 1]
      /\ Units(a) \in Seq(Unit) /\ Len(Units(a)) = Size(a)
  BY <1>2, <1>3, <1>4, Pushed DEF u
<1>7. Whole(Units(b)) /\ Units(b) # <<>> /\ Units(b) \in Seq(Unit) /\ Len(Units(b)) = Size(b)
  BY <1>4, WholeUnits, UnitsOf
<1>8. /\ Carried(Units(a), "getdata") = <<>> /\ Carried(Units(a), "block") = <<>>
      /\ Carried(Units(b), "getdata") = <<>> /\ Carried(Units(b), "block") = <<>>
  BY <1>4, CarriedUnits
<1>9. Size(a) = 1 /\ Size(b) = 1 /\ 1 <= Reply /\ 2 <= Reply
  BY <1>4, Sizes, SizesAssumption DEF Reply
<1>10. CASE n # In
  <2>1. y = PushMessage(x, Refused(n), b)
    BY <1>5, <1>10
  <2>2. Sends(x, y, Units(b), Refused(n)) /\ Prompt(x, y, Units(b), Refused(n))
    BY <1>2, <1>3, <1>4, <2>1, Pushed
  <2>3. Len(Units(b)) <= Reply
    BY <1>7, <1>9
  <2> QED  BY <1>2, <1>3, <1>7, <1>8, <1>10, <2>2, <2>3 DEF x, y, s, b
<1>11. CASE n = In
  <2> DEFINE qa == Units(a)
             qb == Units(b)
             q == qa \o qb
  <2>1. y = PushMessage(u, Refused(n), b) /\ u \in Half
    BY <1>5, <1>6, <1>11 DEF Sends
  <2>2. /\ Sends(u, y, Units(b), Refused(n))
        /\ u.s.vSendMsg # <<>> \/ ~u.s.hSocket =>
               /\ Stays(u.s, y.s) /\ y.w = u.w /\ y.s.nLastSend = u.s.nLastSend
               /\ y.s.vSendMsg # <<>>
    BY <1>1, <1>4, <1>6, <2>1, Push
  <2>3. qa \in Seq(Unit) /\ qb \in Seq(Unit) /\ qa # <<>> /\ Whole(qa) /\ Whole(qb) /\ qa[1].msg.type = "version"
        /\ Len(qa) = 1 /\ Len(qb) = 1
    BY <1>4, <1>6, <1>7, <1>9
  <2>4. Sends(x, y, q, Refused(n))
    BY <1>1, <1>3, <1>6, <1>7, <2>2, SendsTwice
  <2>5. Carried(q, "getdata") = <<>> /\ Carried(q, "block") = <<>>
    <3> HIDE DEF qa, qb
    <3>1. /\ Carried(q, "getdata") = Carried(qa, "getdata") \o Carried(qb, "getdata")
          /\ Carried(q, "block") = Carried(qa, "block") \o Carried(qb, "block")
      BY <2>3, CarriedConcat
    <3>2. <<>> \o <<>> = <<>>
      OBVIOUS
    <3> QED  BY <1>8, <3>1, <3>2, Zenon DEF qa, qb
  <2> HIDE DEF qa, qb
  <2>6. Whole(q) /\ q # <<>> /\ q[1] = qa[1]
    BY <2>3, WholeJoin
  <2>7. Len(q) <= Reply
    <3>0. qa \in Seq(Unit) /\ qb \in Seq(Unit)
      BY <2>3
    <3>1. Len(qa \o qb) = Len(qa) + Len(qb)
      BY <3>0
    <3> QED  BY <1>9, <2>3, <3>1, SizesAssumption DEF Reply
  <2>8. Prompt(x, y, q, Refused(n))
    <3>1. ASSUME x.s.vSendMsg # <<>>
          PROVE  Stays(x.s, y.s) /\ y.w = x.w /\ y.s.vSendMsg # <<>>
      <4>1. Stays(x.s, u.s) /\ u.w = x.w /\ u.s.vSendMsg # <<>>
        BY <1>6, <3>1 DEF Prompt
      <4> QED  BY <2>2, <4>1 DEF Stays
    <3>2. ASSUME x.s.vSendMsg = <<>>, x.w = <<>>, ~Refused(n)
          PROVE  y.s.nLastSend = 0
      <4>1. u.s.nLastSend = 0
        BY <1>6, <3>2 DEF Prompt
      <4> QED  BY <2>2, <3>2, <4>1 DEF Sends
    <3> QED  BY <3>1, <3>2 DEF Prompt
  <2> QED  BY <1>2, <1>3, <1>11, <2>3, <2>4, <2>5, <2>6, <2>7, <2>8 DEF x, y, s, q, qa, qb, a, b
<1> QED  BY <1>10, <1>11

LEMMA ProcessMessagesStep ==
    ASSUME IInv, NEW n \in Node, ProcessMessages(n)
    PROVE  IInv' /\ MarkedClosed(n)'
<1> DEFINE m == node[n].vRecvMsg[1].msg
           h == Here(n)
           y == ProcessMessage(n, h, Refused(n), m)
<1>1. /\ CanProcess(n) /\ node[n].hSocket /\ ~node[n].fDisconnect /\ node[n].vRecvGetData = <<>>
      /\ nSendSize(node[n]) < SendBufferSize
  BY DEF ProcessMessages, CanProcess
<1>2. m \in Msg /\ (~node[n].nVersion => m.type = "version")
  BY <1>1, Received1
<1>3. TypeOK /\ Frames
  BY DEF IInv
<1>4. h \in Half /\ h.s = node[n] /\ h.w = wire[n] /\ Alike(node[n], h.s) /\ Refused(n) \in BOOLEAN
  BY <1>3, NodeTypes DEF Here, Alike, Stays
<1>5. <<>> \in Seq(Nat) /\ <<>> \o <<>> = <<>> /\ Len(<<>>) <= Reply /\ Carried(<<>>, "getdata") = <<>> /\ Carried(<<>>, "block") = <<>>
  BY OfNothing, SizesAssumption DEF Reply
<1>6. CASE m.type = "version" /\ ~node[n].nVersion
  <2> DEFINE x == [s |-> [node[n] EXCEPT !.nVersion = TRUE], w |-> wire[n]]
             g == Greet(n, Here(n), Refused(n))
             q == IF n = In THEN Units(Plain("version")) \o Units(Plain("verack")) ELSE Units(Plain("verack"))
  <2>1. /\ x \in Half /\ x.w = wire[n] /\ Alike(node[n], x.s) /\ x.s.asked = node[n].asked /\ x.s.nVersion
        /\ x.s.vRecvGetData = node[n].vRecvGetData
        /\ Whole(q) /\ q # <<>> /\ Len(q) <= Reply /\ (n = In => q[1].msg.type = "version")
        /\ Carried(q, "getdata") = <<>> /\ Carried(q, "block") = <<>>
        /\ Sends(x, g, q, Refused(n)) /\ Prompt(x, g, q, Refused(n))
    BY <1>1, <1>3, GreetSends
  <2>2. y = g
    BY <1>4, <1>6, Zenon DEF ProcessMessage
  <2> HIDE DEF x, g, q, y, m
  <2>3. Carried(q, "block") \o x.s.vRecvGetData = IF m.type = "getdata" THEN m.inv ELSE <<>>
    BY <1>1, <1>5, <1>6, <2>1
  <2> QED  BY <2>1, <2>2, <2>3, ProcessServes DEF y, h, m
<1>7. CASE m.type = "ping" /\ node[n].nVersion
  <2> DEFINE a == Plain("pong")
             g == PushMessage(h, Refused(n), a)
  <2>1. a \in Msg /\ a.type = "pong"
    BY DEF Msg, Types, Plain
  <2>2. y = g
    BY <1>4, <1>7, Zenon DEF ProcessMessage
  <2> HIDE DEF a, h, y, m
  <2>3. /\ Sends(h, g, Units(a), Refused(n)) /\ Prompt(h, g, Units(a), Refused(n))
        /\ Whole(Units(a)) /\ Len(Units(a)) = Size(a)
    BY <1>1, <1>3, <1>4, <2>1, Pushed
  <2>4. Carried(Units(a), "getdata") = <<>> /\ Carried(Units(a), "block") = <<>> /\ Len(Units(a)) <= Reply
    BY <2>1, <2>3, CarriedUnits, Sizes, SizesAssumption DEF Reply
  <2> HIDE DEF g
  <2>5. Carried(Units(a), "block") \o h.s.vRecvGetData = IF m.type = "getdata" THEN m.inv ELSE <<>>
    BY <1>1, <1>4, <1>5, <1>7, <2>4
  <2> QED  BY <1>4, <1>7, <2>2, <2>3, <2>4, <2>5, ProcessServes DEF y, h, m
<1>8. CASE m.type = "getdata" /\ node[n].nVersion
  <2> DEFINE v == m.inv
             s == [node[n] EXCEPT !.vRecvGetData = Tail(v)]
             x == [s |-> s, w |-> wire[n]]
             b == [type |-> "block", inv |-> <<Head(v)>>]
             g == PushMessage(x, Refused(n), b)
  <2>1. v \in Seq(Nat) /\ v # <<>> /\ Tail(v) \in Seq(Nat) /\ Head(v) \in Nat
    <3>1. v \in Seq(Nat) /\ v # <<>>
      BY <1>2, <1>8 DEF Msg
    <3> HIDE DEF v
    <3> QED  BY <3>1
  <2>2. /\ s \in CNode /\ Alike(node[n], s) /\ s.vRecvGetData = Tail(v) /\ s.nVersion = node[n].nVersion
        /\ s.asked = node[n].asked
    <3>1. node[n] \in CNode
      BY <1>3, NodeTypes
    <3> HIDE DEF v
    <3> QED  BY <2>1, <3>1 DEF CNode, Alike, Stays
  <2>3. b \in Msg /\ b.type = "block" /\ b.inv = <<Head(v)>>
    <3> HIDE DEF v
    <3> QED  BY <2>1 DEF Msg, Types
  <2>4. x \in Half /\ x.s = s /\ x.w = wire[n]
    BY <1>3, <2>2, HereFacts
  <2>5. y = g
    <3> DEFINE t == [node[n] EXCEPT !.vRecvGetData = v]
               k == [s |-> t, w |-> wire[n]]
    <3>1. <<>> \o v = v
      <4> HIDE DEF v
      <4> QED  BY <2>1
    <3>2. ASSUME NEW e PROVE [Here(n) EXCEPT !.s = e] = [s |-> e, w |-> wire[n]]
      BY DEF Here
    <3>3. [h EXCEPT !.s.vRecvGetData = @ \o m.inv] = k
      <4>1. [h EXCEPT !.s.vRecvGetData = @ \o m.inv] = [h EXCEPT !.s = [h.s EXCEPT !.vRecvGetData = h.s.vRecvGetData \o m.inv]]
        BY Zenon
      <4>2. h.s.vRecvGetData \o m.inv = v
        BY <1>1, <1>4, <3>1, Zenon
      <4> QED  BY <1>4, <3>2, <4>1, <4>2, Zenon
    <3>4. y = ProcessGetData(k, Refused(n))
      BY <1>4, <1>8, <3>3, Zenon DEF ProcessMessage
    <3>5. t.vRecvGetData = v /\ t.vSendMsg = node[n].vSendMsg /\ [t EXCEPT !.vRecvGetData = Tail(v)] = s
      <4>1. node[n] \in CNode
        BY <1>3, NodeTypes
      <4> HIDE DEF v
      <4> QED  BY <4>1 DEF CNode
    <3>6. k.s = t
      OBVIOUS
    <3>7. ~(t.vRecvGetData = <<>> \/ nSendSize(t) >= SendBufferSize)
      <4>1. nSendSize(t) = nSendSize(node[n])
        <5> HIDE DEF t
        <5> QED  BY <3>5, Zenon DEF nSendSize
      <4>2. nSendSize(node[n]) < SendBufferSize /\ nSendSize(node[n]) \in Nat
        BY <1>1, <1>3, NodeTypes, LoadIsNat DEF Load, nSendSize
      <4> HIDE DEF t
      <4> QED  BY <2>1, <3>5, <4>1, <4>2, SizesAssumption
    <3>8. [k EXCEPT !.s.vRecvGetData = Tail(@)] = x
      <4>1. [k EXCEPT !.s.vRecvGetData = Tail(@)] = [k EXCEPT !.s = [k.s EXCEPT !.vRecvGetData = Tail(k.s.vRecvGetData)]]
        BY Zenon
      <4>2. [k.s EXCEPT !.vRecvGetData = Tail(k.s.vRecvGetData)] = s
        BY <3>5, <3>6, Zenon
      <4>3. ASSUME NEW e PROVE [k EXCEPT !.s = e] = [s |-> e, w |-> wire[n]]
        OBVIOUS
      <4> HIDE DEF s, k
      <4> QED  BY <4>1, <4>2, <4>3, Zenon
    <3> HIDE DEF k, t, s, v
    <3>9. ProcessGetData(k, Refused(n)) = PushMessage(x, Refused(n), [type |-> "block", inv |-> <<Head(k.s.vRecvGetData)>>])
      BY <3>6, <3>7, <3>8, Zenon DEF ProcessGetData
    <3> QED  BY <3>4, <3>5, <3>6, <3>9, Zenon
  <2> HIDE DEF s, x, b, v, y, h, m
  <2>6. /\ Sends(x, g, Units(b), Refused(n)) /\ Prompt(x, g, Units(b), Refused(n))
        /\ Whole(Units(b)) /\ Len(Units(b)) = Size(b)
    BY <1>1, <1>3, <2>2, <2>3, <2>4, Pushed
  <2>7. Carried(Units(b), "getdata") = <<>> /\ Carried(Units(b), "block") = <<Head(v)>>
    BY <2>3, CarriedUnits
  <2>8. Len(Units(b)) <= Reply
    BY <2>6, Sizes, SizesAssumption DEF Reply
  <2> HIDE DEF g
  <2>9. Carried(Units(b), "block") \o x.s.vRecvGetData = IF m.type = "getdata" THEN m.inv ELSE <<>>
    <3>1. <<Head(v)>> \o Tail(v) = v
      BY <2>1
    <3>2. v = m.inv
      BY DEF v
    <3> QED  BY <1>8, <2>2, <2>4, <2>7, <3>1, <3>2
  <2>10. /\ x.s.asked = node[n].asked /\ Alike(node[n], x.s) /\ x.s.nVersion = node[n].nVersion
         /\ ProcessMessage(n, Here(n), Refused(n), m) = g /\ m = node[n].vRecvMsg[1].msg
    BY <2>2, <2>4, <2>5 DEF y, h, m
  <2> QED  BY <1>8, <2>4, <2>6, <2>7, <2>8, <2>9, <2>10, ProcessServes
<1>9. CASE y = h /\ node[n].nVersion /\ m.type # "getdata"
  <2> HIDE DEF h, y, m
  <2>1. Sends(h, h, <<>>, Refused(n)) /\ Prompt(h, h, <<>>, Refused(n)) /\ Whole(<<>>)
    BY <1>4, SendsNone, WholeNone
  <2>2. Carried(<<>>, "block") \o h.s.vRecvGetData = IF m.type = "getdata" THEN m.inv ELSE <<>>
    BY <1>1, <1>4, <1>5, <1>9
  <2>3. ProcessMessage(n, Here(n), Refused(n), m) = h /\ m = node[n].vRecvMsg[1].msg /\ h.s.asked = node[n].asked
    BY <1>4, <1>9 DEF y, h, m
  <2> QED  BY <1>4, <1>5, <1>9, <2>1, <2>2, <2>3, ProcessServes
<1>10. \/ m.type = "version" /\ ~node[n].nVersion
       \/ m.type = "ping" /\ node[n].nVersion
       \/ m.type = "getdata" /\ node[n].nVersion
       \/ y = h /\ node[n].nVersion /\ m.type # "getdata"
  BY <1>2, <1>4, Zenon DEF ProcessMessage
<1> QED  BY <1>6, <1>7, <1>8, <1>9, <1>10

-----------------------------------------------------------------------------
(* The actions of the socket thread                                        *)

\* Two records between which only the inactivity check and select have worked.
Still(s, t) ==
    /\ t.vSendMsg = s.vSendMsg /\ t.vRecvMsg = s.vRecvMsg /\ t.vRecvGetData = s.vRecvGetData
    /\ t.nVersion = s.nVersion /\ t.hSocket = s.hSocket /\ t.asked = s.asked
    /\ t.nTimeConnected = s.nTimeConnected /\ t.nLastSend = s.nLastSend /\ t.nLastRecv = s.nLastRecv

\* A node that has sent and received in time.
InTime(s) ==
    /\ s.nLastSend <= PingInterval + 1 /\ s.nLastRecv <= PingInterval + 1
    /\ s.nTimeConnected > 0 => Never \notin {s.nLastSend, s.nLastRecv}

LEMMA SelFacts ==
    ASSUME NEW s \in CNode, NEW a \in {"none", "send", "recv"}
    PROVE  LET t == [s EXCEPT !.sel = a]
           IN  t \in CNode /\ Still(s, t) /\ t.sel = a /\ t.fDisconnect = s.fDisconnect
<1> DEFINE t == [s EXCEPT !.sel = a]
<1>1. t \in CNode
  BY Zenon DEF CNode
<1>2. Still(s, t) /\ t.sel = a /\ t.fDisconnect = s.fDisconnect
  BY DEF CNode, Still
<1> QED  BY <1>1, <1>2

LEMMA InactivityFacts ==
    ASSUME NEW s \in CNode
    PROVE  LET t == Inactivity(s)
           IN  /\ t \in CNode /\ Still(s, t) /\ t.sel = s.sel
               /\ s.fDisconnect => t.fDisconnect
               /\ InTime(s) => t.fDisconnect = s.fDisconnect
<1> DEFINE r == IF s.vSendMsg = <<>> THEN [s EXCEPT !.nLastSendEmpty = 0] ELSE s
           t == Inactivity(s)
<1>1. r \in CNode /\ Still(s, r) /\ r.sel = s.sel /\ r.fDisconnect = s.fDisconnect
  <2> DEFINE e == [s EXCEPT !.nLastSendEmpty = 0]
  <2>1. e \in CNode /\ Still(s, e) /\ e.sel = s.sel /\ e.fDisconnect = s.fDisconnect
    <3>1. e \in CNode
      BY Ages, Zenon DEF CNode
    <3>2. Still(s, e) /\ e.sel = s.sel /\ e.fDisconnect = s.fDisconnect
      BY DEF CNode, Still
    <3> QED  BY <3>1, <3>2
  <2>2. Still(s, s)
    BY DEF Still
  <2> HIDE DEF e
  <2>3. r = e \/ r = s
    BY DEF e
  <2> QED  BY <2>1, <2>2, <2>3
<1>2. t = IF s.hSocket /\ Expired(r) THEN [r EXCEPT !.fDisconnect = TRUE] ELSE r
  BY Zenon DEF Inactivity
<1> HIDE DEF r, t
<1>3. CASE ~(s.hSocket /\ Expired(r))
  <2>1. t = r
    BY <1>2, <1>3
  <2> QED  BY <1>1, <2>1 DEF t
<1>4. CASE s.hSocket /\ Expired(r)
  <2>1. t = [r EXCEPT !.fDisconnect = TRUE]
    BY <1>2, <1>4
  <2>2. t \in CNode
    <3>1. TRUE \in BOOLEAN
      OBVIOUS
    <3> QED  BY <1>1, <2>1, <3>1, Zenon DEF CNode
  <2>3. Still(r, t) /\ t.sel = r.sel /\ t.fDisconnect = TRUE
    BY <1>1, <2>1 DEF CNode, Still
  <2>4. ~InTime(s)
    <3>1. Expired(r)
      BY <1>4
    <3>2. r.nTimeConnected = s.nTimeConnected /\ r.nLastSend = s.nLastSend /\ r.nLastRecv = s.nLastRecv
      BY <1>1 DEF Still
    <3>3. s.nLastSend \in Int /\ s.nLastRecv \in Int
      BY NodeFields, Ages
    <3>4. PingInterval \in Nat /\ Timeout \in Nat /\ PingInterval + 1 <= Timeout
      BY SizesAssumption
    <3> QED  BY <3>1, <3>2, <3>3, <3>4 DEF Expired, InTime
  <2>5. Still(s, t)
    BY <1>1, <2>3 DEF Still
  <2> QED  BY <1>1, <2>2, <2>3, <2>4, <2>5 DEF t
<1> QED  BY <1>3, <1>4

\* A step that changes no stream, but by closing.
LEMMA QuietStep ==
    ASSUME IInv, NEW n \in Node, Turn(n, <<>>, <<>>), TypeOK', got' = got,
           node'[n].vRecvGetData = node[n].vRecvGetData, node'[n].nVersion = node[n].nVersion,
           node'[n].asked = node[n].asked
    PROVE  Frames' /\ Greeting' /\ Blocks'
<1>1. TypeOK /\ Frames /\ Greeting /\ Blocks
  BY DEF IInv
<1>2. Frames'
  BY <1>1, FramesStep
<1>3. Greeting'
  <2>1. ~node[n].nVersion => node[n].vRecvGetData = <<>>
    BY <1>1 DEF Greeting
  <2>2. \/ node[n].nVersion
        \/ <<>> = <<>> /\ ~node'[n].nVersion
    OBVIOUS
  <2>3. ~node'[n].nVersion => node'[n].vRecvGetData = <<>> /\ <<>> = <<>>
    BY <2>1
  <2> QED  BY <1>1, <2>2, <2>3, GreetingStep
<1>4. Blocks'
  <2>1. got'[Peer(n)] = got[Peer(n)] /\ got'[n] = got[n] \o Carried(<<>>, "block")
    BY <1>1, NothingTaken
  <2>2. Carried(<<>>, "block") \o node'[n].vRecvGetData = node[n].vRecvGetData \o Carried(<<>>, "getdata")
    <3>1. node[n].vRecvGetData \in Seq(Nat) /\ Carried(<<>>, "block") = <<>>
      BY <1>1, NodeTypes, OfNothing
    <3> QED  BY <1>1, <3>1, NothingTaken, Zenon
  <2>3. [i \in 1..node[n].asked |-> i] \o Carried(<<>>, "getdata") = [i \in 1..node'[n].asked |-> i]
    <3>1. Carried(<<>>, "getdata") = <<>>
      BY OfNothing
    <3> QED  BY <1>1, <3>1, NothingTaken, Zenon
  <2> QED  BY <1>1, <2>1, <2>2, <2>3, BlocksStep
<1> QED  BY <1>2, <1>3, <1>4

\* What a closed or a quiet node buffers.
LEMMA BufferedStep ==
    ASSUME IInv, NEW n \in Node, node'[Peer(n)] = node[Peer(n)],
           nSendSize(node'[n]) - Len(Asks(node'[n].vSendMsg)) <= nSendSize(node[n]) - Len(Asks(node[n].vSendMsg)),
           node'[n] \in CNode,
           \/ node'[n].vRecvMsg = <<>>
           \/ node'[n].vRecvMsg = node[n].vRecvMsg /\ (node'[n].sel = "recv" => node[n].sel = "recv" \/ SelectRecv(n))
    PROVE  Buffered'
<1>1. \A k \in Node : k = n \/ k = Peer(n)
  BY Peers
<1>2. TypeOK /\ Buffered
  BY DEF IInv
<1>3. nSendSize(node'[n]) - Len(Asks(node'[n].vSendMsg)) < SendBufferSize + Reply
  <2> DEFINE a == nSendSize(node'[n])
             b == Len(Asks(node'[n].vSendMsg))
             c == nSendSize(node[n])
             e == Len(Asks(node[n].vSendMsg))
  <2>1. node[n].vSendMsg \in Seq(Unit) /\ node'[n].vSendMsg \in Seq(Unit)
    BY <1>2, NodeTypes, NodeFields
  <2>2. a = Load(node'[n].vSendMsg) /\ c = Load(node[n].vSendMsg)
    BY DEF Load, nSendSize
  <2>3. a \in Nat /\ c \in Nat
    BY <2>1, <2>2, LoadIsNat
  <2>4. b \in Nat /\ e \in Nat
    BY <2>1, AsksCarried
  <2>5. c - e < SendBufferSize + Reply /\ a - b <= c - e
    BY <1>2 DEF Buffered
  <2>6. SendBufferSize + Reply \in Nat
    BY SizesAssumption DEF Reply
  <2> HIDE DEF a, b, c, e
  <2>7. a - b < SendBufferSize + Reply
    BY <2>3, <2>4, <2>5, <2>6
  <2> QED  BY <2>7 DEF a, b
<1>4. /\ GetTotalRecvSize(node'[n]) < Flood + Chunk + BlockSize
      /\ node'[n].sel = "recv" => ~Complete(node'[n]) \/ GetTotalRecvSize(node'[n]) <= ReceiveFloodSize
  <2>1. CASE node'[n].vRecvMsg = <<>>
    BY <2>1, OfNothing, SizesAssumption, SMTT(30) DEF GetTotalRecvSize, Complete, Flood
  <2>2. CASE node'[n].vRecvMsg = node[n].vRecvMsg /\ (node'[n].sel = "recv" => node[n].sel = "recv" \/ SelectRecv(n))
    <3>1. GetTotalRecvSize(node'[n]) = GetTotalRecvSize(node[n]) /\ Complete(node'[n]) = Complete(node[n])
      BY <2>2, Zenon DEF GetTotalRecvSize, Complete
    <3>2. SelectRecv(n) => ~Complete(node[n]) \/ GetTotalRecvSize(node[n]) <= ReceiveFloodSize
      BY Zenon DEF SelectRecv
    <3>3. /\ GetTotalRecvSize(node[n]) < Flood + Chunk + BlockSize
          /\ node[n].sel = "recv" => ~Complete(node[n]) \/ GetTotalRecvSize(node[n]) <= ReceiveFloodSize
      BY <1>2 DEF Buffered
    <3> QED  BY <2>2, <3>1, <3>2, <3>3
  <2> QED  BY <2>1, <2>2
<1> QED  BY <1>1, <1>2, <1>3, <1>4 DEF Buffered

\* A step of the socket thread, which leaves the streams or closes.
LEMMA SocketStep ==
    ASSUME IInv, NEW n \in Node, NEW x \in Half, There(n, x), UNCHANGED <<cut, got>>,
           x.w \o x.s.vSendMsg = wire[n] \o node[n].vSendMsg,
           x.s.vRecvGetData = node[n].vRecvGetData, x.s.nVersion = node[n].nVersion, x.s.asked = node[n].asked,
           \/ x.s.hSocket = node[n].hSocket /\ x.s.vRecvMsg = node[n].vRecvMsg
           \/ Gone(x.s),
           node[n].fDisconnect => x.s.fDisconnect,
           Load(x.s.vSendMsg) - Len(Asks(x.s.vSendMsg)) <= Load(node[n].vSendMsg) - Len(Asks(node[n].vSendMsg)),
           x.s.sel = "recv" => node[n].sel = "recv" \/ SelectRecv(n),
           Course'
    PROVE  IInv'
<1> DEFINE p == Peer(n)
<1>0. TypeOK /\ Frames /\ Shut /\ \A k \in Node : k = n \/ k = p
  BY Peers DEF IInv
<1>1. /\ node' \in [Node -> CNode] /\ wire' \in [Node -> Seq(Unit)]
      /\ \A k \in Node : Len(wire'[k]) <= PipeSize
      /\ node'[n] = x.s /\ node'[p] = node[p] /\ x.s \in CNode
  BY <1>0, ThereFacts
<1>2. TypeOK'
  BY <1>0, <1>1 DEF TypeOK
<1>3. x.w \o x.s.vSendMsg = (wire[n] \o node[n].vSendMsg) \o <<>>
  <2> DEFINE a == wire[n] \o node[n].vSendMsg
  <2>1. a \in Seq(Unit)
    BY <1>0, StreamTypes
  <2> HIDE DEF a
  <2>2. a = a \o <<>>
    BY <2>1
  <2> QED  BY <2>2, Zenon DEF a
<1>4. \/ x.s.hSocket = node[n].hSocket /\ node[n].vRecvMsg = <<>> \o x.s.vRecvMsg
      \/ Gone(x.s)
  <2> DEFINE a == x.s.vRecvMsg
  <2>1. a \in Seq(Unit)
    BY <1>1, NodeFields
  <2> HIDE DEF a
  <2>2. a = <<>> \o a
    BY <2>1
  <2> QED  BY <2>2, Zenon DEF a
<1>5. Turn(n, <<>>, <<>>)
  BY <1>0, <1>3, <1>4, TurnOf, WholeNone
<1>6. Frames' /\ Greeting' /\ Blocks'
  BY <1>1, <1>2, <1>5, QuietStep
<1>7. Shut'
  <2>1. ~x.s.hSocket => x.s.fDisconnect /\ x.s.vRecvMsg = <<>>
    BY <1>0 DEF Shut, Gone
  <2> QED  BY <1>0, <1>1, <2>1 DEF Shut
<1>8. Buffered'
  <2>1. nSendSize(x.s) - Len(Asks(x.s.vSendMsg)) <= nSendSize(node[n]) - Len(Asks(node[n].vSendMsg))
    BY DEF nSendSize, Load
  <2>2. \/ x.s.vRecvMsg = <<>>
        \/ x.s.vRecvMsg = node[n].vRecvMsg /\ (x.s.sel = "recv" => node[n].sel = "recv" \/ SelectRecv(n))
    BY DEF Gone
  <2> QED  BY <1>1, <2>1, <2>2, BufferedStep
<1> QED  BY <1>2, <1>6, <1>7, <1>8 DEF IInv

\* t is s with its socket closed.
Closes(s, t) ==
    /\ Gone(t) /\ t.vSendMsg = s.vSendMsg /\ t.vRecvGetData = s.vRecvGetData
    /\ t.nVersion = s.nVersion /\ t.asked = s.asked

\* A node whose record is the only change, with its queues as they were.
LEMMA StillStep ==
    ASSUME IInv, NEW n \in Node, NEW s \in CNode, Still(node[n], s) \/ Closes(node[n], s),
           node' = [node EXCEPT ![n] = s], UNCHANGED <<wire, cut, got>>,
           node[n].fDisconnect => s.fDisconnect,
           s.sel = "recv" => node[n].sel = "recv" \/ SelectRecv(n), Course'
    PROVE  IInv'
<1> DEFINE x == [s |-> s, w |-> wire[n]]
<1>0. TypeOK
  BY DEF IInv
<1>1. x \in Half /\ x.s = s /\ x.w = wire[n]
  BY <1>0, HereFacts
<1>2. There(n, x)
  <2>1. wire' = [wire EXCEPT ![n] = wire[n]]
    BY <1>0 DEF TypeOK
  <2> QED  BY <1>1, <2>1, Zenon DEF There
<1>3. /\ s.vSendMsg = node[n].vSendMsg /\ s.vRecvGetData = node[n].vRecvGetData /\ s.nVersion = node[n].nVersion
      /\ s.asked = node[n].asked
      /\ \/ s.hSocket = node[n].hSocket /\ s.vRecvMsg = node[n].vRecvMsg
         \/ Gone(s)
  BY DEF Still, Closes
<1>4. Load(s.vSendMsg) - Len(Asks(s.vSendMsg)) <= Load(node[n].vSendMsg) - Len(Asks(node[n].vSendMsg))
  <2>1. node[n].vSendMsg \in Seq(Unit)
    BY <1>0, NodeTypes
  <2>2. Load(node[n].vSendMsg) \in Nat /\ Len(Asks(node[n].vSendMsg)) \in Nat
    BY <2>1, LoadIsNat, AsksCarried
  <2> QED  BY <1>3, <2>2
<1> HIDE DEF x
<1>5. x.w \o x.s.vSendMsg = wire[n] \o node[n].vSendMsg
  BY <1>1, <1>3, Zenon
<1>6. UNCHANGED <<cut, got>>
  OBVIOUS
<1> QED  BY <1>1, <1>2, <1>3, <1>4, <1>5, <1>6, SocketStep

\* Health does not depend on what select and the inactivity check change.
LEMMA HealthyStill ==
    ASSUME TypeOK, Healthy, NEW n \in Node, NEW s \in CNode, Still(node[n], s), ~s.fDisconnect,
           node' = [node EXCEPT ![n] = s], wire' = wire
    PROVE  Healthy'
<1> DEFINE p == Peer(n)
<1>1. p \in Node /\ p # n /\ Peer(p) = n /\ \A k \in Node : k = n \/ k = p
  BY Peers
<1>2. node'[n] = s /\ node'[p] = node[p]
  BY <1>1 DEF TypeOK
<1>3. Well(n) /\ Well(p)
  BY <1>1, HealthyWell
<1>4. Well(n)'
  BY <1>2, <1>3 DEF Well, Still
<1>5. Well(p)'
  <2>1. node'[Peer(p)].nLastRecv = node[Peer(p)].nLastRecv
    BY <1>1, <1>2 DEF Still
  <2> QED  BY <1>2, <1>3, <2>1 DEF Well
<1> QED  BY <1>1, <1>4, <1>5, HealthyWell

\* A jam, and what is left of it, for two nodes.
LEMMA FrozenOver ==
    ASSUME NEW n \in Node
    PROVE  LET p == Peer(n)
           IN  /\ Frozen => /\ node[n].hSocket /\ node[p].hSocket /\ node[n].vSendMsg # <<>> /\ node[p].vSendMsg # <<>>
                            /\ node[n].sel = "none" /\ node[p].sel = "none"
                            /\ ~(Len(wire[n]) < PipeSize) /\ ~(Len(wire[p]) < PipeSize)
               /\ node'[n].hSocket /\ node'[p].hSocket /\ node'[n].vSendMsg # <<>> /\ node'[p].vSendMsg # <<>>
                  /\ node'[n].sel = "none" /\ node'[p].sel = "none"
                  /\ ~(Len(wire'[n]) < PipeSize) /\ ~(Len(wire'[p]) < PipeSize) => Frozen'
               /\ Over /\ node[n].hSocket => ~node[p].hSocket /\ node[n].vSendMsg # <<>> /\ node[n].sel # "recv"
               /\ ~node'[p].hSocket /\ node'[n].vSendMsg # <<>> /\ node'[n].sel # "recv" => Over'
               /\ ~node'[n].hSocket /\ (node'[p].hSocket => node'[p].vSendMsg # <<>> /\ node'[p].sel # "recv") => Over'
               /\ Over => (node[p].hSocket => node[p].vSendMsg # <<>> /\ node[p].sel # "recv")
<1> DEFINE p == Peer(n)
<1>1. p \in Node /\ p # n /\ Peer(p) = n /\ \A k \in Node : k = n \/ k = p
  BY Peers
<1>2. Frozen => /\ node[n].hSocket /\ node[p].hSocket /\ node[n].vSendMsg # <<>> /\ node[p].vSendMsg # <<>>
                /\ node[n].sel = "none" /\ node[p].sel = "none"
                /\ ~(Len(wire[n]) < PipeSize) /\ ~(Len(wire[p]) < PipeSize)
  BY <1>1 DEF Frozen, Jammed, SelectSend, Writeable
<1>3. node'[n].hSocket /\ node'[p].hSocket /\ node'[n].vSendMsg # <<>> /\ node'[p].vSendMsg # <<>>
      /\ node'[n].sel = "none" /\ node'[p].sel = "none"
      /\ ~(Len(wire'[n]) < PipeSize) /\ ~(Len(wire'[p]) < PipeSize) => Frozen'
  BY <1>1 DEF Frozen, Jammed, SelectSend, Writeable, Refused
<1>4. Over /\ node[n].hSocket => ~node[p].hSocket /\ node[n].vSendMsg # <<>> /\ node[n].sel # "recv"
  BY <1>1 DEF Over
<1>5. ~node'[p].hSocket /\ node'[n].vSendMsg # <<>> /\ node'[n].sel # "recv" => Over'
  BY <1>1 DEF Over
<1>6. ~node'[n].hSocket /\ (node'[p].hSocket => node'[p].vSendMsg # <<>> /\ node'[p].sel # "recv") => Over'
  BY <1>1 DEF Over
<1>7. Over => (node[p].hSocket => node[p].vSendMsg # <<>> /\ node[p].sel # "recv")
  BY <1>1 DEF Over
<1> QED  BY <1>2, <1>3, <1>4, <1>5, <1>6, <1>7

LEMMA DisconnectStep ==
    ASSUME IInv, NEW n \in Node, Disconnect(n)
    PROVE  IInv'
<1> DEFINE p == Peer(n)
           s == CloseSocketDisconnect(node[n])
<1>1. TypeOK /\ node[n] \in CNode /\ p \in Node /\ p # n
  BY NodeTypes, Peers DEF IInv
<1>2. node[n].fDisconnect /\ node[n].sel = "none" /\ node' = [node EXCEPT ![n] = s] /\ UNCHANGED <<wire, cut, got>>
  BY Zenon DEF Disconnect
<1>3. s \in CNode /\ Gone(s) /\ Kept(node[n], s) /\ s.vSendMsg = node[n].vSendMsg
  BY <1>1, CloseFacts
<1> HIDE DEF s
<1>4. node'[n] = s /\ node'[p] = node[p]
  BY <1>1, <1>2 DEF TypeOK
<1>5. Course'
  <2>1. CASE cut
    BY <1>2, <2>1 DEF Course
  <2>2. CASE Healthy
    BY <1>2, <2>2 DEF Healthy
  <2>3. CASE Frozen \/ Over
    <3>1. node[p].hSocket => node[p].vSendMsg # <<>> /\ node[p].sel # "recv"
      BY <2>3, FrozenOver
    <3>2. Over'
      BY <1>3, <1>4, <3>1, FrozenOver DEF Gone
    <3> QED  BY <3>2 DEF Course
  <2> QED  BY <2>1, <2>2, <2>3 DEF IInv, Course
<1>6. Closes(node[n], s) /\ (node[n].fDisconnect => s.fDisconnect) /\ s.sel = "none"
  BY <1>2, <1>3 DEF Closes, Kept, Gone
<1> QED  BY <1>2, <1>3, <1>5, <1>6, StillStep

LEMMA SelectStep ==
    ASSUME IInv, NEW n \in Node, Select(n)
    PROVE  IInv'
<1> DEFINE p == Peer(n)
           s == [node[n] EXCEPT !.sel = Ready(n)]
<1>1. TypeOK /\ node[n] \in CNode /\ p \in Node /\ p # n
  BY NodeTypes, Peers DEF IInv
<1>2. /\ node[n].hSocket /\ ~node[n].fDisconnect /\ node[n].sel = "none" /\ Ready(n) # "none"
      /\ node' = [node EXCEPT ![n] = s] /\ UNCHANGED <<wire, cut, got>>
  BY Zenon DEF Select
<1>3. Ready(n) \in {"none", "send", "recv"} /\ (Ready(n) = "recv" => SelectRecv(n)) /\ (Ready(n) = "send" => SelectSend(n) /\ Writeable(n))
  BY Zenon DEF Ready
<1>4. s \in CNode /\ Still(node[n], s) /\ s.sel = Ready(n) /\ s.fDisconnect = node[n].fDisconnect
  BY <1>1, <1>3, SelFacts
<1> HIDE DEF s
<1>5. node'[n] = s /\ node'[p] = node[p]
  BY <1>1, <1>2 DEF TypeOK
<1>6. Course'
  <2>1. CASE cut
    BY <1>2, <2>1 DEF Course
  <2>2. CASE Healthy
    <3>1. Healthy'
      BY <1>1, <1>2, <1>4, <2>2, HealthyStill
    <3> QED  BY <3>1 DEF Course
  <2>3. CASE ~cut /\ Frozen
    <3>1. /\ node[n].vSendMsg # <<>> /\ ~(Len(wire[n]) < PipeSize) /\ node[p].hSocket
      BY <2>3, FrozenOver
    <3>2. ~SelectRecv(n) /\ ~Writeable(n)
      BY <3>1 DEF SelectRecv, Writeable, Refused
    <3> QED  BY <1>2, <1>3, <3>2
  <2>4. CASE Over
    <3>1. ~node[p].hSocket /\ node[n].vSendMsg # <<>>
      BY <1>2, <2>4, FrozenOver
    <3>2. ~SelectRecv(n)
      BY <3>1 DEF SelectRecv
    <3>3. s.sel # "recv" /\ s.vSendMsg # <<>>
      BY <1>3, <1>4, <3>1, <3>2 DEF Still
    <3>4. Over'
      BY <1>5, <3>1, <3>3, FrozenOver
    <3> QED  BY <3>4 DEF Course
  <2> QED  BY <2>1, <2>2, <2>3, <2>4 DEF IInv, Course
<1> QED  BY <1>2, <1>3, <1>4, <1>6, StillStep

LEMMA IdleStep ==
    ASSUME IInv, NEW n \in Node, Idle(n)
    PROVE  /\ IInv'
           /\ ~cut /\ ~node[n].fDisconnect /\ node'[n].fDisconnect => Jammed
<1> DEFINE p == Peer(n)
           s == Inactivity(node[n])
<1>1. TypeOK /\ node[n] \in CNode /\ p \in Node /\ p # n
  BY NodeTypes, Peers DEF IInv
<1>2. /\ node[n].hSocket /\ ~node[n].fDisconnect /\ node[n].sel = "none" /\ Ready(n) = "none"
      /\ node' = [node EXCEPT ![n] = s] /\ UNCHANGED <<wire, cut, got>>
  BY Zenon DEF Idle
<1>3. /\ s \in CNode /\ Still(node[n], s) /\ s.sel = node[n].sel /\ (node[n].fDisconnect => s.fDisconnect)
      /\ InTime(node[n]) => s.fDisconnect = node[n].fDisconnect
  BY <1>1, InactivityFacts
<1> HIDE DEF s
<1>4. node'[n] = s /\ node'[p] = node[p]
  BY <1>1, <1>2 DEF TypeOK
<1>5. Healthy => ~s.fDisconnect
  <2>1. Healthy => InTime(node[n])
    BY DEF Healthy, InTime
  <2> QED  BY <1>2, <1>3, <2>1
<1>6. ~(Over /\ ~cut)
  <2> SUFFICES ASSUME Over, ~cut PROVE FALSE
    OBVIOUS
  <2>1. ~node[p].hSocket /\ node[n].vSendMsg # <<>>
    BY <1>2, FrozenOver
  <2>2. SelectSend(n) /\ Writeable(n)
    BY <1>2, <2>1 DEF SelectSend, Writeable, Refused
  <2> QED  BY <1>2, <2>2, Zenon DEF Ready
<1>7. Course'
  <2>1. CASE cut
    BY <1>2, <2>1 DEF Course
  <2>2. CASE Healthy
    <3>1. Healthy'
      BY <1>1, <1>2, <1>3, <1>5, <2>2, HealthyStill
    <3> QED  BY <3>1 DEF Course
  <2>3. CASE Frozen
    <3>1. /\ node[n].hSocket /\ node[p].hSocket /\ node[n].vSendMsg # <<>> /\ node[p].vSendMsg # <<>>
          /\ node[n].sel = "none" /\ node[p].sel = "none"
          /\ ~(Len(wire[n]) < PipeSize) /\ ~(Len(wire[p]) < PipeSize)
      BY <2>3, FrozenOver
    <3>2. s.hSocket /\ s.vSendMsg # <<>> /\ s.sel = "none"
      BY <1>3, <3>1 DEF Still
    <3>3. Frozen'
      BY <1>2, <1>4, <3>1, <3>2, FrozenOver
    <3> QED  BY <3>3 DEF Course
  <2> QED  BY <1>6, <2>1, <2>2, <2>3 DEF IInv, Course
<1>8. IInv'
  BY <1>2, <1>3, <1>7, StillStep
<1>9. ~cut /\ ~node[n].fDisconnect /\ node'[n].fDisconnect => Jammed
  BY <1>4, <1>5, <1>6 DEF IInv, Course, Frozen
<1> QED  BY <1>8, <1>9

LEMMA ServiceSendStep ==
    ASSUME IInv, NEW n \in Node, ServiceSend(n)
    PROVE  /\ IInv'
           /\ ~cut /\ ~node[n].fDisconnect /\ node'[n].fDisconnect /\ node'[n].hSocket => Jammed
<1> DEFINE p == Peer(n)
           h == Here(n)
           x == IF node[n].hSocket THEN SocketSendData(h, Refused(n)) ELSE h
           t == Inactivity(x.s)
           s == [t EXCEPT !.sel = "none"]
           y == [s |-> s, w |-> x.w]
<1>0. TypeOK /\ Frames /\ p \in Node /\ p # n
  BY Peers DEF IInv
<1>1. h \in Half /\ h.s = node[n] /\ h.w = wire[n] /\ Refused(n) \in BOOLEAN /\ node[n] \in CNode /\ node[n].vSendMsg \in Seq(Unit)
  BY <1>0, NodeTypes DEF Here
<1>2. /\ Sends(h, x, <<>>, Refused(n))
      /\ node[n].hSocket /\ Refused(n) => Gone(x.s)
      /\ ~node[n].hSocket => x = h
  <2>1. CASE node[n].hSocket
    <3>1. Linked(node[n].vSendMsg)
      <4> DEFINE a == node[p].vRecvMsg
                 b == wire[n]
                 c == node[n].vSendMsg
      <4>1. a \in Seq(Unit) /\ b \in Seq(Unit) /\ c \in Seq(Unit) /\ Linked(a \o (b \o c))
        BY <1>0, NodeTypes DEF Frames, Framed, Stream
      <4> HIDE DEF a, b, c
      <4>2. b \o c \in Seq(Unit)
        BY <4>1
      <4>3. Linked(b \o c)
        BY <4>1, <4>2, LinkedParts
      <4>4. Linked(c)
        BY <4>1, <4>3, LinkedParts
      <4> QED  BY <4>4 DEF c
    <3>2. x = SocketSendData(h, Refused(n))
      BY <2>1
    <3> HIDE DEF h
    <3>3. /\ Sends(h, SocketSendData(h, Refused(n)), <<>>, Refused(n))
          /\ Refused(n) => Gone(SocketSendData(h, Refused(n)).s)
      BY <1>1, <2>1, <3>1, SendData
    <3> HIDE DEF x
    <3> QED  BY <2>1, <3>2, <3>3
  <2>2. CASE ~node[n].hSocket
    <3>1. x = h
      BY <2>2
    <3> HIDE DEF x, h
    <3> QED  BY <1>1, <2>2, <3>1, SendsNone
  <2> QED  BY <2>1, <2>2
<1>3. node[n].sel = "send" /\ UNCHANGED <<cut, got>> /\ There(n, [x EXCEPT !.s = s])
  BY Zenon DEF ServiceSend
<1> HIDE DEF x, h
<1>4. x \in Half /\ x.s \in CNode /\ x.w \in Seq(Unit) /\ Len(x.w) <= PipeSize /\ x = [s |-> x.s, w |-> x.w]
  BY <1>2 DEF Sends, Half
<1>5. /\ t \in CNode /\ Still(x.s, t) /\ (x.s.fDisconnect => t.fDisconnect)
      /\ InTime(x.s) => t.fDisconnect = x.s.fDisconnect
  BY <1>4, InactivityFacts
<1> HIDE DEF t
<1>6. s \in CNode /\ Still(t, s) /\ s.sel = "none" /\ s.fDisconnect = t.fDisconnect
  BY <1>5, SelFacts
<1> HIDE DEF s
<1>7. Still(x.s, s) /\ (x.s.fDisconnect => s.fDisconnect) /\ (InTime(x.s) => s.fDisconnect = x.s.fDisconnect)
  BY <1>5, <1>6 DEF Still
<1>8. y \in Half /\ y.s = s /\ y.w = x.w /\ There(n, y)
  <2>1. ASSUME NEW e PROVE [x EXCEPT !.s = e] = [s |-> e, w |-> x.w]
    BY <1>4
  <2>2. [x EXCEPT !.s = s] = y
    BY <2>1, Zenon
  <2>3. There(n, y)
    BY <1>3, <2>2, Zenon
  <2> QED  BY <1>4, <1>6, <2>3 DEF Half
<1> HIDE DEF y
<1>9. node'[n] = s /\ node'[p] = node[p] /\ wire'[n] = x.w /\ wire'[p] = wire[p]
  BY <1>0, <1>8, ThereFacts
<1>10. /\ x.w \o x.s.vSendMsg = (wire[n] \o node[n].vSendMsg) \o <<>>
       /\ Kept(node[n], x.s)
       /\ \/ /\ Stays(node[n], x.s)
             /\ \/ ~Refused(n) /\ x.s.nLastSend = 0 /\ x.w # <<>>
                \/ x.s.nLastSend = node[n].nLastSend /\ x.w = wire[n]
          \/ Refused(n) /\ Gone(x.s)
       /\ Load(x.s.vSendMsg) - Len(Asks(x.s.vSendMsg))
             <= Load(node[n].vSendMsg) - Len(Asks(node[n].vSendMsg)) + Len(<<>>) - Len(Asks(<<>>))
  BY <1>1, <1>2 DEF Sends
<1>11. Healthy /\ ~cut => ~s.fDisconnect /\ Healthy'
  <2> SUFFICES ASSUME Healthy, ~cut PROVE ~s.fDisconnect /\ Healthy'
    OBVIOUS
  <2>1. ~Refused(n) /\ node[n].hSocket /\ ~node[n].fDisconnect /\ InTime(node[n])
    BY <1>0 DEF Healthy, Refused, InTime
  <2>2. /\ Stays(node[n], x.s)
        /\ \/ x.s.nLastSend = 0 /\ x.w # <<>>
           \/ x.s.nLastSend = node[n].nLastSend /\ x.w = wire[n]
    BY <1>10, <2>1
  <2>3. x.s.nTimeConnected = node[n].nTimeConnected /\ x.s.nLastRecv = node[n].nLastRecv /\ x.s.nVersion = node[n].nVersion
    BY <1>10 DEF Kept
  <2>4. InTime(x.s)
    BY <2>1, <2>2, <2>3, SizesAssumption, SMTT(30) DEF InTime, Never
  <2>5. ~s.fDisconnect /\ s.hSocket
    BY <1>7, <2>1, <2>2, <2>4 DEF Stays, Still
  <2>6. y.w \o y.s.vSendMsg = (wire[n] \o node[n].vSendMsg) \o <<>>
    BY <1>7, <1>8, <1>10 DEF Still
  <2>7. /\ \/ y.s.nLastSend = 0 /\ y.w # <<>>
           \/ y.s.nLastSend = node[n].nLastSend /\ y.w = wire[n]
        /\ y.s.nTimeConnected = node[n].nTimeConnected /\ y.s.nLastRecv = node[n].nLastRecv
        /\ y.s.nVersion = node[n].nVersion
    BY <1>7, <1>8, <2>2, <2>3 DEF Still
  <2>8. Healthy'
    BY <1>0, <1>8, <2>5, <2>6, <2>7, HealthyStep
  <2> QED  BY <2>5, <2>8
<1>12. Over /\ ~cut => ~s.hSocket /\ Over'
  <2> SUFFICES ASSUME Over, ~cut PROVE ~s.hSocket /\ Over'
    OBVIOUS
  <2>1. ~x.s.hSocket
    <3>1. CASE node[n].hSocket
      <4>1. ~node[p].hSocket
        BY <3>1, FrozenOver
      <4> QED  BY <1>2, <3>1, <4>1 DEF Refused, Gone
    <3>2. CASE ~node[n].hSocket
      BY <1>1, <1>2, <3>2
    <3> QED  BY <3>1, <3>2
  <2>2. ~s.hSocket
    BY <1>7, <2>1 DEF Still
  <2>3. node[p].hSocket => node[p].vSendMsg # <<>> /\ node[p].sel # "recv"
    BY FrozenOver
  <2> QED  BY <1>9, <2>2, <2>3, FrozenOver
<1>13. ~Frozen
  BY <1>3 DEF Frozen
<1>14. Course'
  BY <1>3, <1>11, <1>12, <1>13 DEF IInv, Course
<1>15. IInv'
  <2>1. y.w \o y.s.vSendMsg = wire[n] \o node[n].vSendMsg
    <3> DEFINE a == wire[n] \o node[n].vSendMsg
    <3>1. a \in Seq(Unit)
      BY <1>0, StreamTypes
    <3>2. y.w \o y.s.vSendMsg = a \o <<>>
      BY <1>7, <1>8, <1>10 DEF Still
    <3> HIDE DEF a
    <3>3. a \o <<>> = a
      BY <3>1
    <3> QED  BY <3>2, <3>3 DEF a
  <2>2. /\ y.s.vRecvGetData = node[n].vRecvGetData /\ y.s.nVersion = node[n].nVersion /\ y.s.asked = node[n].asked
    BY <1>7, <1>8, <1>10 DEF Still, Kept
  <2>3. \/ y.s.hSocket = node[n].hSocket /\ y.s.vRecvMsg = node[n].vRecvMsg
        \/ Gone(y.s)
    BY <1>7, <1>8, <1>10 DEF Still, Stays, Gone
  <2>4. node[n].fDisconnect => y.s.fDisconnect
    BY <1>7, <1>8, <1>10 DEF Stays, Gone
  <2>5. Load(y.s.vSendMsg) - Len(Asks(y.s.vSendMsg)) <= Load(node[n].vSendMsg) - Len(Asks(node[n].vSendMsg))
    <3> DEFINE a == Load(node[n].vSendMsg)
               b == Len(Asks(node[n].vSendMsg))
               c == Load(x.s.vSendMsg)
               e == Len(Asks(x.s.vSendMsg))
    <3>1. x.s.vSendMsg \in Seq(Unit)
      BY <1>4, NodeFields
    <3>2. a \in Nat /\ c \in Nat
      BY <1>1, <3>1, LoadIsNat
    <3>3. b \in Nat /\ e \in Nat
      BY <1>1, <3>1, AsksCarried
    <3>4. c - e <= a - b + Len(<<>>) - Len(Asks(<<>>))
      BY <1>10
    <3>5. Len(<<>>) = 0 /\ Len(Asks(<<>>)) = 0 /\ y.s.vSendMsg = x.s.vSendMsg
      BY <1>7, <1>8, OfNothing DEF Still
    <3> HIDE DEF a, b, c, e
    <3>6. c - e <= a - b
      BY <3>2, <3>3, <3>4, <3>5
    <3> QED  BY <3>5, <3>6 DEF a, b, c, e
  <2>6. y.s.sel # "recv"
    BY <1>6, <1>8
  <2> QED  BY <1>3, <1>8, <1>14, <2>1, <2>2, <2>3, <2>4, <2>5, <2>6, SocketStep
<1>16. ~cut /\ ~node[n].fDisconnect /\ node'[n].fDisconnect /\ node'[n].hSocket => Jammed
  BY <1>9, <1>11, <1>12, <1>13 DEF IInv, Course
<1> QED  BY <1>15, <1>16

\* n's select that found something to read has not been overtaken by a jam.
LEMMA RecvCourse ==
    ASSUME IInv, NEW n \in Node, node[n].sel = "recv"
    PROVE  /\ ~Frozen
           /\ ~cut => Healthy \/ Over
           /\ ~cut /\ node[n].hSocket => Healthy
  BY FrozenOver DEF IInv, Course, Frozen

\* What a node reads.
Reads(n, k) ==
    LET p == Peer(n)
        s == [node[n] EXCEPT !.vRecvMsg = @ \o SubSeq(wire[p], 1, k), !.nLastRecv = 0]
    IN  /\ wire' = [wire EXCEPT ![p] = SubSeq(@, k + 1, Len(@))]
        /\ node' = [node EXCEPT ![n] = [Inactivity(s) EXCEPT !.sel = "none"]]

LEMMA ReadsStep ==
    ASSUME IInv, NEW n \in Node, node[n].sel = "recv", node[n].hSocket, ~cut, UNCHANGED <<cut, got>>,
           NEW k \in 1..Len(wire[Peer(n)]), k <= Chunk, Reads(n, k)
    PROVE  IInv' /\ node'[n].fDisconnect = node[n].fDisconnect
<1> DEFINE p == Peer(n)
           u == node[n].vRecvMsg
           a == SubSeq(wire[p], 1, k)
           b == SubSeq(wire[p], k + 1, Len(wire[p]))
           v == node[p].vSendMsg
           r == [node[n] EXCEPT !.vRecvMsg = u \o a, !.nLastRecv = 0]
           t == Inactivity(r)
           s == [t EXCEPT !.sel = "none"]
<1>1. p \in Node /\ p # n /\ Peer(p) = n /\ \A j \in Node : j = n \/ j = p
  BY Peers
<1>2. TypeOK /\ Frames /\ Shut /\ Buffered /\ Healthy
  BY RecvCourse DEF IInv
<1>3. /\ node[n] \in CNode /\ wire[p] \in Seq(Unit) /\ Len(wire[p]) <= PipeSize /\ u \in Seq(Unit) /\ v \in Seq(Unit)
      /\ node \in [Node -> CNode] /\ wire \in [Node -> Seq(Unit)] /\ \A j \in Node : Len(wire[j]) <= PipeSize
  BY <1>1, <1>2, NodeTypes DEF TypeOK
<1>4. /\ a \in Seq(Unit) /\ b \in Seq(Unit) /\ Len(a) = k /\ Len(b) = Len(wire[p]) - k /\ a \o b = wire[p]
      /\ Len(wire[p]) \in Nat /\ k \in Nat /\ 1 <= k /\ k <= Len(wire[p])
  <2>1. Len(wire[p]) \in Nat /\ k \in Nat /\ 1 <= k /\ k <= Len(wire[p]) /\ k \in 0..Len(wire[p])
    BY <1>3
  <2>2. a \in Seq(Unit) /\ b \in Seq(Unit) /\ Len(a) = k /\ Len(b) = Len(wire[p]) - k /\ a \o b = wire[p]
    BY <1>3, <2>1, Split
  <2> QED  BY <2>1, <2>2
<1>5. wire' = [wire EXCEPT ![p] = b] /\ node' = [node EXCEPT ![n] = s]
  <2>1. wire' = [wire EXCEPT ![p] = b]
    BY DEF Reads
  <2>2. node' = [node EXCEPT ![n] = s]
    BY DEF Reads
  <2> QED  BY <2>1, <2>2
<1> HIDE DEF a, b
<1>20. a \in Seq(Unit) /\ b \in Seq(Unit) /\ u \in Seq(Unit) /\ v \in Seq(Unit)
  BY <1>3, <1>4
<1>6. u \o a \in Seq(Unit) /\ Len(u \o a) = Len(u) + k /\ Len(u) \in Nat
  <2> HIDE DEF u
  <2>1. Len(a) = k
    BY <1>4
  <2>2. u \o a \in Seq(Unit) /\ Len(u \o a) = Len(u) + Len(a)
    BY <1>20, ConcatProperties
  <2>3. Len(u) \in Nat
    BY <1>20
  <2> QED  BY <2>1, <2>2, <2>3
<1>7. /\ r \in CNode /\ r.vRecvMsg = u \o a /\ r.nLastRecv = 0 /\ r.vSendMsg = node[n].vSendMsg
      /\ r.vRecvGetData = node[n].vRecvGetData /\ r.nVersion = node[n].nVersion /\ r.hSocket = node[n].hSocket
      /\ r.asked = node[n].asked /\ r.nTimeConnected = node[n].nTimeConnected /\ r.nLastSend = node[n].nLastSend
      /\ r.fDisconnect = node[n].fDisconnect
  <2> DEFINE c == u \o a
  <2>1. c \in Seq(Unit) /\ 0 \in Age
    BY <1>6, Ages
  <2> HIDE DEF c, u
  <2>2. [node[n] EXCEPT !.vRecvMsg = c, !.nLastRecv = 0] \in CNode
    BY <1>3, <2>1, Zenon DEF CNode
  <2>3. r = [node[n] EXCEPT !.vRecvMsg = c, !.nLastRecv = 0]
    BY DEF c, u
  <2> HIDE DEF r
  <2> QED  BY <1>3, <2>2, <2>3 DEF CNode, c, u
<1> HIDE DEF r
<1>8. /\ t \in CNode /\ Still(r, t) /\ (r.fDisconnect => t.fDisconnect)
      /\ InTime(r) => t.fDisconnect = r.fDisconnect
  BY <1>7, InactivityFacts
<1> HIDE DEF t
<1>9. s \in CNode /\ Still(t, s) /\ s.sel = "none" /\ s.fDisconnect = t.fDisconnect
  BY <1>8, SelFacts
<1> HIDE DEF s
<1>10. /\ Well(n) /\ Well(p)
  BY <1>1, <1>2, HealthyWell
<1>11. InTime(r)
  BY <1>7, <1>10, SizesAssumption, SMTT(30) DEF Well, InTime, Never
<1>12. /\ s.vRecvMsg = u \o a /\ s.nLastRecv = 0 /\ s.vSendMsg = node[n].vSendMsg
       /\ s.vRecvGetData = node[n].vRecvGetData /\ s.nVersion = node[n].nVersion /\ s.hSocket = node[n].hSocket
       /\ s.asked = node[n].asked /\ s.nTimeConnected = node[n].nTimeConnected /\ s.nLastSend = node[n].nLastSend
       /\ s.fDisconnect = node[n].fDisconnect
  BY <1>7, <1>8, <1>9, <1>11 DEF Still
<1>13. node'[n] = s /\ node'[p] = node[p] /\ wire'[p] = b /\ wire'[n] = wire[n]
  BY <1>1, <1>3, <1>5
<1>14. TypeOK'
  <2>1. node' \in [Node -> CNode] /\ wire' \in [Node -> Seq(Unit)]
    BY <1>3, <1>4, <1>5, <1>9
  <2>2. Len(b) <= PipeSize
    BY <1>3, <1>4, SizesAssumption, SMTT(30)
  <2>3. \A j \in Node : Len(wire'[j]) <= PipeSize
    BY <1>1, <1>3, <1>13, <2>2
  <2> QED  BY <1>2, <2>1, <2>3 DEF TypeOK
<1>15. Turn(n, <<>>, <<>>)
  <2> DEFINE c == node[p].vRecvMsg \o (wire[n] \o node[n].vSendMsg)
             e == u \o (wire[p] \o v)
  <2>1. Stream(n) = c /\ Stream(p) = e
    BY <1>1, Zenon DEF Stream
  <2>2. c \in Seq(Unit) /\ e \in Seq(Unit)
    BY <1>1, <1>2, <2>1, StreamTypes
  <2>3. Stream(n)' = c /\ Stream(p)' = (u \o a) \o (b \o v)
    BY <1>1, <1>12, <1>13, Zenon DEF Stream, Peer
  <2> HIDE DEF u, v
  <2>4. (u \o a) \o (b \o v) = u \o ((a \o b) \o v)
    <3> DEFINE bv == b \o v
    <3>1. bv \in Seq(Unit)
      BY <1>3, <1>4
    <3>2. (a \o b) \o v = a \o (b \o v)
      BY <1>20, UnitAssoc, Zenon
    <3> HIDE DEF bv
    <3>3. (u \o a) \o bv = u \o (a \o bv)
      BY <1>20, <3>1, UnitAssoc, Zenon
    <3> QED  BY <3>2, <3>3, Zenon DEF bv
  <2>5. Stream(p)' = e
    BY <1>4, <2>3, <2>4, Zenon
  <2> HIDE DEF c, e
  <2>6. c = c \o <<>> /\ e = <<>> \o e
    BY <2>2
  <2>7. Whole(<<>>) /\ <<>> \in Seq(Unit)
    BY WholeNone
  <2> QED  BY <1>9, <1>12, <1>13, <2>1, <2>2, <2>3, <2>5, <2>6, <2>7 DEF Turn
<1>16. Frames' /\ Greeting' /\ Blocks'
  BY <1>12, <1>13, <1>14, <1>15, QuietStep
<1>17. Shut'
  BY <1>1, <1>2, <1>12, <1>13 DEF Shut
<1>18. Buffered'
  <2> DEFINE w == u \o a
  <2>1. Linked(w) /\ (w # <<>> => w[1].at = 1) /\ Linked(u) /\ (u # <<>> => u[1].at = 1)
    <3> DEFINE z == b \o v
               f == a \o z
    <3>1. z \in Seq(Unit) /\ w \in Seq(Unit)
      BY <1>3, <1>4, <1>6
    <3>2. Stream(p) = u \o (wire[p] \o v)
      BY <1>1, Zenon DEF Stream
    <3>3. Framed(Stream(p)) /\ (Stream(p) # <<>> => Stream(p)[1].at = 1)
      BY <1>1, <1>2 DEF Frames
    <3> HIDE DEF u, v
    <3>4. wire[p] \o v = f
      <4>1. (a \o b) \o v = a \o (b \o v)
        BY <1>20, UnitAssoc, Zenon
      <4> QED  BY <1>4, <4>1, Zenon
    <3> HIDE DEF z
    <3>5. f \in Seq(Unit)
      BY <1>4, <3>1
    <3>6. w \o z = u \o f
      BY <1>20, <3>1, UnitAssoc, Zenon
    <3> HIDE DEF w, f
    <3>7. Linked(w \o z) /\ (w \o z # <<>> => (w \o z)[1].at = 1)
      BY <3>2, <3>3, <3>4, <3>6 DEF Framed
    <3>8. Linked(u \o f) /\ (u \o f # <<>> => (u \o f)[1].at = 1)
      BY <3>6, <3>7
    <3>9. Linked(w) /\ Linked(u)
      BY <1>3, <3>1, <3>5, <3>7, <3>8, LinkedParts
    <3>10. w # <<>> => w \o z # <<>> /\ (w \o z)[1] = w[1]
      BY <3>1
    <3>11. u # <<>> => u \o f # <<>> /\ (u \o f)[1] = u[1]
      BY <1>3, <3>5
    <3> QED  BY <3>7, <3>8, <3>9, <3>10, <3>11
  <2>2. /\ Len(Buffers(w)) \in Nat /\ (w # <<>> => Len(Buffers(w)) <= Len(w) + BlockSize - 1)
        /\ (w = <<>> => Len(Buffers(w)) = 0)
    <3> HIDE DEF w
    <3> QED  BY <2>1, BuffersLen
  <2>3. Len(u) <= Flood
    <3> HIDE DEF u
    <3>1. Len(Buffers(u)) \in Nat /\ Len(u) <= Len(Buffers(u))
      BY <2>1, BuffersLen
    <3>2. ~(u # <<>> /\ Len(u) >= Size(u[1].msg)) \/ Len(Buffers(u)) <= ReceiveFloodSize
      BY <1>2, Zenon DEF Buffered, Complete, GetTotalRecvSize, u
    <3>3. Size(u[1].msg) \in Nat /\ Size(u[1].msg) <= BlockSize
      BY Sizes
    <3>4. ReceiveFloodSize \in Nat /\ BlockSize \in Nat
      BY SizesAssumption
    <3>5. u = <<>> => Len(u) = 0
      OBVIOUS
    <3> QED  BY <1>6, <3>1, <3>2, <3>3, <3>4, <3>5 DEF Flood
  <2>4. GetTotalRecvSize(s) < Flood + Chunk + BlockSize
    <3>1. GetTotalRecvSize(s) = Len(Buffers(w))
      BY <1>12, Zenon DEF GetTotalRecvSize
    <3>2. Flood \in Nat /\ Chunk \in Nat /\ BlockSize \in Nat \ {0}
      BY SizesAssumption DEF Flood
    <3>3. Len(w) = Len(u) + k
      BY <1>6
    <3> HIDE DEF w
    <3> QED  BY <1>4, <1>6, <2>2, <2>3, <3>1, <3>2, <3>3
  <2>5. nSendSize(s) = nSendSize(node[n])
    BY <1>12, Zenon DEF nSendSize
  <2> QED  BY <1>1, <1>2, <1>9, <1>12, <1>13, <2>4, <2>5 DEF Buffered
<1>19. Course'
  <2>1. wire[p] # <<>>
    BY <1>4
  <2>2. node[p].nLastSend # Never /\ node[p].nLastSend \in Age
    BY <1>1, <1>2, <1>10, <2>1, NodeTypes, NodeFields DEF Well
  <2>3. 0 <= node[p].nLastSend /\ 0 # Never
    BY <2>2, SizesAssumption DEF Age, Never
  <2>4. Well(n)'
    <3>1. s.hSocket /\ ~s.fDisconnect
      BY <1>10, <1>12 DEF Well
    <3>2. s.nLastSend <= PingInterval + 1 /\ s.nLastRecv <= PingInterval + 1
      BY <1>10, <1>12, SizesAssumption DEF Well
    <3>3. s.nTimeConnected > 0 => Never \notin {s.nLastSend, s.nLastRecv}
      BY <1>10, <1>12, <2>3 DEF Well
    <3>4. s.nLastSend = Never => n = In /\ ~s.nVersion /\ wire[n] = <<>> /\ s.vSendMsg = <<>>
      BY <1>10, <1>12 DEF Well
    <3>5. wire[n] = <<>> /\ s.nLastSend # Never =>
            node[p].nLastRecv # Never /\ node[p].nLastRecv <= s.nLastSend
      BY <1>10, <1>12 DEF Well
    <3> QED  BY <1>13, <3>1, <3>2, <3>3, <3>4, <3>5 DEF Well
  <2>5. Well(p)'
    <3>1. node'[Peer(p)].nLastRecv = 0
      BY <1>1, <1>12, <1>13
    <3> QED  BY <1>10, <1>13, <2>2, <2>3, <3>1 DEF Well
  <2>6. Healthy'
    BY <1>1, <2>4, <2>5, HealthyWell
  <2> QED  BY <2>6 DEF Course
<1> QED  BY <1>12, <1>13, <1>14, <1>16, <1>17, <1>18, <1>19 DEF IInv

LEMMA ServiceRecvStep ==
    ASSUME IInv, NEW n \in Node, ServiceRecv(n)
    PROVE  /\ IInv'
           /\ ~cut /\ ~node[n].fDisconnect /\ node'[n].fDisconnect => ~node'[n].hSocket
<1> DEFINE p == Peer(n)
           k == IF Chunk < Len(wire[p]) THEN Chunk ELSE Len(wire[p])
<1>1. TypeOK /\ node[n] \in CNode /\ wire[p] \in Seq(Unit) /\ p \in Node /\ p # n
  <2>1. TypeOK /\ p \in Node /\ p # n
    BY Peers DEF IInv
  <2> QED  BY <2>1, NodeTypes
<1>2. node[n].sel = "recv" /\ UNCHANGED <<cut, got>>
  BY DEF ServiceRecv
<1>3. CASE node[n].hSocket /\ k > 0 /\ ~cut /\ Reads(n, k)
  <2>1. k \in 1..Len(wire[p]) /\ k <= Chunk
    <3>1. Len(wire[p]) \in Nat /\ Chunk \in Nat
      BY <1>1, SizesAssumption
    <3> QED  BY <1>3, <3>1
  <2> HIDE DEF k
  <2> QED  BY <1>2, <1>3, <2>1, ReadsStep
<1>4. CASE node[n].hSocket /\ Refused(n) /\ Closed(n)
  <2>1. ~cut /\ Healthy /\ ~node[p].hSocket
    BY <1>2, <1>4, RecvCourse DEF Refused
  <2> QED  BY <1>1, <2>1 DEF Healthy
<1>5. CASE (~node[n].hSocket \/ cut) /\ node' = [node EXCEPT ![n].sel = "none"] /\ UNCHANGED wire
  <2> DEFINE s == [node[n] EXCEPT !.sel = "none"]
  <2>1. s \in CNode /\ Still(node[n], s) /\ s.sel = "none" /\ s.fDisconnect = node[n].fDisconnect
    BY <1>1, SelFacts
  <2>2. node' = [node EXCEPT ![n] = s]
    BY <1>5, Zenon
  <2> HIDE DEF s
  <2>3. node'[n] = s /\ node'[p] = node[p]
    BY <1>1, <2>2 DEF TypeOK
  <2>4. Course'
    <3>1. CASE cut
      BY <1>2, <3>1 DEF Course
    <3>2. CASE ~cut
      <4>1. ~node[n].hSocket
        BY <1>5, <3>2
      <4>2. Over
        BY <1>2, <3>2, <4>1, RecvCourse DEF Healthy
      <4>3. node[p].hSocket => node[p].vSendMsg # <<>> /\ node[p].sel # "recv"
        BY <4>2, FrozenOver
      <4>4. ~node'[n].hSocket
        BY <2>1, <2>3, <4>1 DEF Still
      <4>5. Over'
        BY <2>3, <4>3, <4>4, FrozenOver
      <4> QED  BY <4>5 DEF Course
    <3> QED  BY <3>1, <3>2
  <2>5. s.sel = "recv" => node[n].sel = "recv" \/ SelectRecv(n)
    BY <2>1
  <2>6. UNCHANGED <<wire, cut, got>>
    BY <1>2, <1>5
  <2>7. IInv'
    BY <2>1, <2>2, <2>4, <2>5, <2>6, StillStep
  <2> QED  BY <2>1, <2>3, <2>7
<1>6. \/ node[n].hSocket /\ k > 0 /\ ~cut /\ Reads(n, k)
      \/ node[n].hSocket /\ Refused(n) /\ Closed(n)
      \/ (~node[n].hSocket \/ cut) /\ node' = [node EXCEPT ![n].sel = "none"] /\ UNCHANGED wire
  BY DEF ServiceRecv, Reads
<1> QED  BY <1>3, <1>4, <1>5, <1>6

LEMMA CutStep ==
    ASSUME IInv, Cut
    PROVE  IInv'
<1>1. cut' = TRUE /\ node' = node /\ wire' = wire /\ got' = got
  BY DEF Cut
<1>2. \A p \in Node : Stream(p)' = Stream(p)
  BY <1>1 DEF Stream, Peer
<1>3. TypeOK' /\ Shut' /\ Course'
  BY <1>1 DEF IInv, TypeOK, Shut, Course
<1>4. Frames'
  BY <1>1, <1>2 DEF IInv, Frames
<1>5. Greeting'
  BY <1>1, <1>2 DEF IInv, Greeting
<1>6. Blocks'
  <2>1. Blocks
    BY DEF IInv
  <2>2. ASSUME NEW n \in Node, node'[n].hSocket, node'[Peer(n)].hSocket
        PROVE  got'[n] \o (Carried(Stream(Peer(n))', "block") \o (node'[Peer(n)].vRecvGetData
                   \o Carried(Stream(n)', "getdata"))) = [i \in 1..node'[n].asked |-> i]
    <3>1. Stream(n)' = Stream(n) /\ Stream(Peer(n))' = Stream(Peer(n))
      BY <1>2, Peers
    <3>2. got[n] \o (Carried(Stream(Peer(n)), "block") \o (node[Peer(n)].vRecvGetData
                   \o Carried(Stream(n), "getdata"))) = [i \in 1..node[n].asked |-> i]
      BY <1>1, <2>1, <2>2, Zenon DEF Blocks
    <3> QED  BY <1>1, <3>1, <3>2, Zenon
  <2> QED  BY <2>2 DEF Blocks
<1>7. Buffered'
  BY <1>1 DEF IInv, Buffered
<1> QED  BY <1>3, <1>4, <1>5, <1>6, <1>7 DEF IInv

LEMMA AgedFacts ==
    ASSUME NEW s \in CNode
    PROVE  LET t == Aged(s)
           IN  /\ t \in CNode /\ t.vSendMsg = s.vSendMsg /\ t.vRecvMsg = s.vRecvMsg /\ t.vRecvGetData = s.vRecvGetData
               /\ t.nVersion = s.nVersion /\ t.hSocket = s.hSocket /\ t.asked = s.asked
               /\ t.fDisconnect = s.fDisconnect /\ t.sel = s.sel
               /\ s.hSocket => t.nLastSend = Older(s.nLastSend) /\ t.nLastRecv = Older(s.nLastRecv)
<1> DEFINE r == [s EXCEPT !.nTimeConnected = 1, !.nLastSend = Older(@), !.nLastRecv = Older(@),
                          !.nLastSendEmpty = Older(@)]
           e == [s EXCEPT !.nTimeConnected = 1, !.nLastSend = Older(s.nLastSend), !.nLastRecv = Older(s.nLastRecv),
                          !.nLastSendEmpty = Older(s.nLastSendEmpty)]
           a == Older(s.nLastSend)
           b == Older(s.nLastRecv)
           c == Older(s.nLastSendEmpty)
<1>1. a \in Age /\ b \in Age /\ c \in Age
  BY NodeFields, Ages
<1>2. r = e
  BY DEF CNode
<1> HIDE DEF a, b, c
<1>3. e = [s EXCEPT !.nTimeConnected = 1, !.nLastSend = a, !.nLastRecv = b, !.nLastSendEmpty = c]
  BY DEF a, b, c
<1> HIDE DEF r, e
<1>4. e \in CNode
  BY <1>1, <1>3 DEF CNode
<1>5. /\ e.vSendMsg = s.vSendMsg /\ e.vRecvMsg = s.vRecvMsg /\ e.vRecvGetData = s.vRecvGetData
      /\ e.nVersion = s.nVersion /\ e.hSocket = s.hSocket /\ e.asked = s.asked
      /\ e.fDisconnect = s.fDisconnect /\ e.sel = s.sel
      /\ e.nLastSend = a /\ e.nLastRecv = b
  BY <1>3 DEF CNode
<1>6. Aged(s) = IF ~s.hSocket THEN s ELSE r
  BY DEF Aged, r
<1> QED  BY <1>2, <1>4, <1>5, <1>6 DEF a, b

\* Between two ticks either everything has been sent, received and processed, or
\* both nodes wait for each other.
LEMMA AtRest ==
    ASSUME IInv, ~cut, Healthy, \A n \in Node : ~Busy(n), ~Jammed, NEW n \in Node
    PROVE  /\ wire[n] = <<>> /\ node[n].vSendMsg = <<>> /\ node[n].vRecvMsg = <<>> /\ node[n].vRecvGetData = <<>>
           /\ node[n].nVersion /\ node[n].nLastSend # Never /\ node[n].nLastSend <= PingInterval
<1>1. \A k \in Node : /\ node[k].hSocket /\ ~node[k].fDisconnect /\ ~Refused(k)
                      /\ ~CanProcess(k) /\ ~CanAnswer(k) /\ ~NeedsPing(k) /\ Ready(k) = "none"
  BY Peers DEF Healthy, Refused, Busy
<1>2. TypeOK /\ Frames /\ Greeting
  BY DEF IInv
<1>3. ASSUME NEW k \in Node, node[k].vSendMsg = <<>>
      PROVE  node[k].vRecvGetData = <<>> /\ ~Complete(node[k]) /\ wire[Peer(k)] = <<>> /\ node[Peer(k)].vSendMsg = <<>>
  <2> DEFINE j == Peer(k)
  <2>0. j \in Node /\ Peer(j) = k
    BY Peers
  <2>1. nSendSize(node[k]) < SendBufferSize
    BY <1>3, SizesAssumption DEF nSendSize
  <2>2. node[k].vRecvGetData = <<>>
    BY <1>1, <2>1 DEF CanAnswer
  <2>3. ~Complete(node[k])
    BY <1>1, <2>1, <2>2 DEF CanProcess
  <2>4. SelectRecv(k)
    BY <1>1, <1>3, <2>3 DEF SelectRecv
  <2>5. ~Readable(k)
    BY <1>1, <2>4, Zenon DEF Ready
  <2>6. wire[j] = <<>>
    BY <2>5 DEF Readable
  <2>7. Writeable(j)
    BY <2>6, SizesAssumption DEF Writeable
  <2>8. ~SelectSend(j)
    BY <1>1, <2>0, <2>7, Zenon DEF Ready
  <2>9. node[j].vSendMsg = <<>>
    BY <1>1, <2>0, <2>8 DEF SelectSend
  <2> QED  BY <2>2, <2>3, <2>6, <2>9
<1>4. PICK k \in Node : node[k].vSendMsg = <<>>
  <2>1. PICK k \in Node : ~SelectSend(k) \/ Writeable(k)
    BY DEF Jammed
  <2>2. ~SelectSend(k)
    BY <1>1, <2>1, Zenon DEF Ready
  <2> QED  BY <1>1, <2>2 DEF SelectSend
<1>5. \A j \in Node : node[j].vSendMsg = <<>>
  BY <1>3, <1>4, Peers
<1>6. ASSUME NEW j \in Node
      PROVE  wire[j] = <<>> /\ node[j].vRecvGetData = <<>> /\ node[j].vRecvMsg = <<>> /\ Stream(j) = <<>>
  <2> DEFINE u == node[j].vRecvMsg
  <2>0. Peer(j) \in Node /\ Peer(Peer(j)) = j
    BY Peers
  <2>1. \A i \in Node : wire[i] = <<>> /\ node[i].vRecvGetData = <<>> /\ ~Complete(node[i])
    BY <1>3, <1>5, Peers
  <2>2. ASSUME NEW i \in Node PROVE node[i].vRecvMsg = <<>>
    <3> DEFINE us == node[i].vRecvMsg
               q == Peer(i)
    <3>1. q \in Node /\ Peer(q) = i
      BY Peers
    <3>2. us \in Seq(Unit) /\ Stream(q) = us \o (<<>> \o <<>>)
      <4>1. us \in Seq(Unit)
        BY <1>2, NodeTypes
      <4> QED  BY <1>5, <2>1, <3>1, <4>1, Zenon DEF Stream
    <3>3. Framed(Stream(q)) /\ (Stream(q) # <<>> => Stream(q)[1].at = 1)
      BY <1>1, <1>2, <3>1 DEF Frames
    <3>4. ~(us # <<>> /\ Len(us) >= Size(us[1].msg))
      BY <2>1 DEF Complete
    <3> HIDE DEF us
    <3>5. us \o (<<>> \o <<>>) = us
      BY <3>2
    <3>6. Framed(us) /\ (us # <<>> => us[1].at = 1)
      BY <3>2, <3>3, <3>5
    <3>7. us # <<>> => Size(us[1].msg) <= Len(us) /\ Size(us[1].msg) \in Nat /\ Len(us) \in Nat
      BY <3>2, <3>6, WholeFirst, Sizes
    <3>8. us = <<>>
      BY <3>4, <3>7
    <3> QED  BY <3>8 DEF us
  <2>3. Stream(j) = <<>>
    BY <1>5, <2>0, <2>1, <2>2 DEF Stream
  <2> QED  BY <2>1, <2>2, <2>3
<1>7. \A j \in Node : node[j].nVersion
  <2>1. Out \in Node /\ In \in Node /\ Peer(Out) = In /\ Peer(In) = Out /\ Out # In
    BY SizesAssumption DEF Node, Peer
  <2>2. node[In].nVersion
    BY <1>1, <1>2, <1>6, <2>1 DEF Greeting
  <2>3. node[Out].nVersion
    BY <1>1, <1>2, <1>6, <2>1, <2>2 DEF Greeting
  <2> QED  BY <2>2, <2>3 DEF Node
<1>8. node[n].nLastSend # Never
  BY <1>7 DEF Healthy
<1>9. node[n].nLastSend <= PingInterval
  <2>1. ~(node[n].nLastSend > PingInterval)
    BY <1>1, <1>5, <1>7 DEF NeedsPing
  <2>2. node[n].nLastSend \in Int /\ PingInterval \in Int
    <3>1. node[n] \in CNode
      BY <1>2, NodeTypes
    <3>2. node[n].nLastSend \in Age
      BY <3>1, NodeFields
    <3>3. node[n].nLastSend \in Int
      BY <3>2, Ages
    <3>4. PingInterval \in Int
      BY SizesAssumption
    <3> QED  BY <3>3, <3>4
  <2> QED  BY <2>1, <2>2
<1> QED  BY <1>5, <1>6, <1>7, <1>8, <1>9

LEMMA TickStep ==
    ASSUME IInv, Tick
    PROVE  IInv'
<1>1. /\ \A n \in Node : ~Busy(n)
      /\ node' = [n \in Node |-> Aged(node[n])] /\ UNCHANGED <<wire, cut, got>>
  BY DEF Tick
<1>2. TypeOK /\ Frames /\ Greeting /\ Blocks /\ Shut /\ Buffered
  BY DEF IInv
<1>3. \A n \in Node :
        /\ node'[n] \in CNode /\ node'[n].vSendMsg = node[n].vSendMsg /\ node'[n].vRecvMsg = node[n].vRecvMsg
        /\ node'[n].vRecvGetData = node[n].vRecvGetData
        /\ node'[n].nVersion = node[n].nVersion /\ node'[n].hSocket = node[n].hSocket /\ node'[n].asked = node[n].asked
        /\ node'[n].fDisconnect = node[n].fDisconnect /\ node'[n].sel = node[n].sel
        /\ node[n].hSocket => node'[n].nLastSend = Older(node[n].nLastSend) /\ node'[n].nLastRecv = Older(node[n].nLastRecv)
  <2> TAKE n \in Node
  <2>1. node[n] \in CNode /\ node'[n] = Aged(node[n])
    BY <1>1, <1>2 DEF TypeOK
  <2> QED  BY <2>1, AgedFacts
<1>4. TypeOK'
  <2>1. node' \in [Node -> CNode]
    BY <1>1, <1>3
  <2> QED  BY <1>1, <1>2, <2>1 DEF TypeOK
<1>5. \A p \in Node : Stream(p)' = Stream(p)
  BY <1>1, <1>3, Peers, Zenon DEF Stream, Peer
<1>6. Frames'
  BY <1>2, <1>3, <1>5, Peers DEF Frames
<1>7. Greeting'
  BY <1>2, <1>3, <1>5, Peers DEF Greeting
<1>8. Blocks'
  <2>2. ASSUME NEW n \in Node, node'[n].hSocket, node'[Peer(n)].hSocket
        PROVE  got'[n] \o (Carried(Stream(Peer(n))', "block") \o (node'[Peer(n)].vRecvGetData
                   \o Carried(Stream(n)', "getdata"))) = [i \in 1..node'[n].asked |-> i]
    <3>1. /\ Stream(n)' = Stream(n) /\ Stream(Peer(n))' = Stream(Peer(n)) /\ got' = got
          /\ node'[n].asked = node[n].asked /\ node'[Peer(n)].vRecvGetData = node[Peer(n)].vRecvGetData
          /\ node[n].hSocket /\ node[Peer(n)].hSocket
      BY <1>1, <1>3, <1>5, <2>2, Peers
    <3>2. got[n] \o (Carried(Stream(Peer(n)), "block") \o (node[Peer(n)].vRecvGetData
                   \o Carried(Stream(n), "getdata"))) = [i \in 1..node[n].asked |-> i]
      BY <1>2, <3>1, Zenon DEF Blocks
    <3> QED  BY <3>1, <3>2, Zenon
  <2> QED  BY <2>2 DEF Blocks
<1>9. Shut'
  BY <1>2, <1>3 DEF Shut
<1>10. Buffered'
  <2> SUFFICES ASSUME NEW n \in Node
               PROVE  /\ nSendSize(node'[n]) - Len(Asks(node'[n].vSendMsg)) < SendBufferSize + Reply
                      /\ GetTotalRecvSize(node'[n]) < Flood + Chunk + BlockSize
                      /\ node'[n].sel = "recv" => ~Complete(node'[n]) \/ GetTotalRecvSize(node'[n]) <= ReceiveFloodSize
    BY DEF Buffered
  <2>1. /\ nSendSize(node'[n]) = nSendSize(node[n]) /\ GetTotalRecvSize(node'[n]) = GetTotalRecvSize(node[n])
        /\ Complete(node'[n]) = Complete(node[n])
    BY <1>3, Zenon DEF nSendSize, GetTotalRecvSize, Complete
  <2>2. /\ nSendSize(node[n]) - Len(Asks(node[n].vSendMsg)) < SendBufferSize + Reply
        /\ GetTotalRecvSize(node[n]) < Flood + Chunk + BlockSize
        /\ node[n].sel = "recv" => ~Complete(node[n]) \/ GetTotalRecvSize(node[n]) <= ReceiveFloodSize
    BY <1>2 DEF Buffered
  <2> QED  BY <1>3, <2>1, <2>2
<1>11. Course'
  <2>1. CASE cut
    BY <1>1, <2>1 DEF Course
  <2>2. CASE Jammed
    <3>1. \A n \in Node : node[n].sel = "none"
      BY <1>1 DEF Busy
    <3>2. \A n \in Node : node[n].hSocket /\ node[n].vSendMsg # <<>> /\ ~(Len(wire[n]) < PipeSize)
      BY <2>2 DEF Jammed, SelectSend, Writeable
    <3>3. \A n \in Node : node'[n].hSocket /\ node'[n].vSendMsg # <<>> /\ node'[n].sel = "none" /\ ~(Len(wire'[n]) < PipeSize)
      BY <1>1, <1>3, <3>1, <3>2
    <3>4. Frozen'
      BY <3>3, Peers DEF Frozen, Jammed, SelectSend, Writeable, Refused
    <3> QED  BY <3>4 DEF Course
  <2>3. CASE ~cut /\ Healthy /\ ~Jammed
    <3>1. \A n \in Node :
             /\ wire[n] = <<>> /\ node[n].vSendMsg = <<>> /\ node[n].hSocket /\ ~node[n].fDisconnect
             /\ node[n].nLastSend # Never /\ node[n].nLastSend <= PingInterval
      BY <1>1, <2>3, AtRest DEF Healthy
    <3>2. ASSUME NEW n \in Node
          PROVE  /\ node[n].nLastRecv # Never /\ node[n].nLastRecv <= node[Peer(n)].nLastSend
                 /\ node[n].nLastSend \in Nat /\ node[n].nLastRecv \in Nat /\ node[n].nLastSend <= PingInterval
                 /\ node[n].nLastRecv <= PingInterval
      <4>0. Peer(n) \in Node /\ Peer(Peer(n)) = n
        BY Peers
      <4>1. node[n].nLastRecv # Never /\ node[n].nLastRecv <= node[Peer(n)].nLastSend
        BY <2>3, <3>1, <4>0 DEF Healthy
      <4>2. node[n] \in CNode /\ node[Peer(n)] \in CNode
        BY <1>2, <4>0, NodeTypes
      <4>3. node[n].nLastSend \in Age /\ node[n].nLastRecv \in Age /\ node[Peer(n)].nLastSend \in Age
        BY <4>2, NodeFields
      <4>4. \A a \in Age : a # Never => a \in Nat
        BY SizesAssumption DEF Age, Never
      <4>5. node[n].nLastSend \in Nat /\ node[n].nLastRecv \in Nat /\ node[Peer(n)].nLastSend \in Nat
        BY <3>1, <4>0, <4>1, <4>3, <4>4
      <4> QED  BY <3>1, <4>0, <4>1, <4>5, SizesAssumption, SMTT(30)
    <3>3. ASSUME NEW a \in Nat, a <= PingInterval PROVE Older(a) = a + 1 /\ a + 1 # Never
      BY <3>3, SizesAssumption DEF Older, Never
    <3>4. ASSUME NEW n \in Node
          PROVE  node'[n].nLastSend = node[n].nLastSend + 1 /\ node'[n].nLastRecv = node[n].nLastRecv + 1
                 /\ node'[n].nLastSend # Never /\ node'[n].nLastRecv # Never
      BY <1>3, <3>1, <3>2, <3>3
    <3>5. ASSUME NEW n \in Node PROVE Well(n)'
      <4>0. Peer(n) \in Node /\ Peer(Peer(n)) = n
        BY Peers
      <4>1. node'[n].hSocket /\ ~node'[n].fDisconnect
        BY <1>3, <3>1
      <4>2. node'[n].nLastSend <= PingInterval + 1 /\ node'[n].nLastRecv <= PingInterval + 1
        BY <3>2, <3>4, SizesAssumption
      <4>3. Never \notin {node'[n].nLastSend, node'[n].nLastRecv}
        BY <3>4
      <4>4. node'[Peer(n)].nLastRecv # Never /\ node'[Peer(n)].nLastRecv <= node'[n].nLastSend
        <5>1. node[Peer(n)].nLastRecv <= node[n].nLastSend /\ node[n].nLastSend \in Nat /\ node[Peer(n)].nLastRecv \in Nat
          BY <3>2, <4>0
        <5> QED  BY <3>4, <4>0, <5>1
      <4> QED  BY <4>1, <4>2, <4>3, <4>4 DEF Well
    <3>6. Healthy'
      BY <3>5, HealthyWell
    <3> QED  BY <3>6 DEF Course
  <2>4. CASE Over
    <3>1. /\ \E n \in Node : ~node'[n].hSocket
          /\ \A n \in Node : node'[n].hSocket => node'[n].vSendMsg # <<>> /\ node'[n].sel # "recv"
      BY <1>3, <2>4 DEF Over
    <3>2. Over'
      BY <3>1 DEF Over
    <3> QED  BY <3>2 DEF Course
  <2> QED  BY <2>1, <2>2, <2>3, <2>4 DEF IInv, Course, Frozen
<1> QED  BY <1>4, <1>6, <1>7, <1>8, <1>9, <1>10, <1>11 DEF IInv

-----------------------------------------------------------------------------
(* The theorems                                                            *)

\* The connection starts with a version on its way from the node that connected.
LEMMA InitLemma ==
    ASSUME Init
    PROVE  IInv
<1> DEFINE m == Plain("version")
           h == [s |-> NewNode, w |-> <<>>]
           x == PushMessage(h, FALSE, m)
           q == Units(m)
<1>1. /\ node = [n \in Node |-> IF n = Out THEN x.s ELSE NewNode]
      /\ wire = [n \in Node |-> IF n = Out THEN x.w ELSE <<>>]
      /\ cut = FALSE /\ got = [n \in Node |-> <<>>]
  BY DEF Init
<1>2. m \in Msg /\ m.type = "version"
  BY DEF Msg, Types, Plain
<1>3. NewNode \in CNode
  BY Ages DEF NewNode, CNode
<1>4. h \in Half /\ h.s = NewNode /\ h.w = <<>>
  BY <1>3, SizesAssumption DEF Half
<1>5. /\ NewNode.vSendMsg = <<>> /\ NewNode.vRecvMsg = <<>> /\ NewNode.vRecvGetData = <<>> /\ ~NewNode.nVersion
      /\ NewNode.hSocket /\ ~NewNode.fDisconnect /\ NewNode.sel = "none" /\ NewNode.asked = 0
      /\ NewNode.nTimeConnected = 0 /\ NewNode.nLastSend = Never /\ NewNode.nLastRecv = Never
  BY DEF NewNode
<1>6. Framed(h.w \o h.s.vSendMsg) /\ h.w \o h.s.vSendMsg = <<>>
  BY <1>4, <1>5, WholeNone DEF Whole
<1> HIDE DEF h, m
<1>7. Sends(h, x, q, FALSE) /\ x.s.nLastSend = 0
  BY <1>2, <1>4, <1>5, <1>6, Push
<1>8. q \in Seq(Unit) /\ q # <<>> /\ Whole(q) /\ q[1] = [msg |-> m, at |-> 1] /\ Len(q) = 1
  BY <1>2, UnitsOf, WholeUnits, Sizes
<1> HIDE DEF x, q
<1>9. /\ x \in Half /\ x.s.vRecvGetData = <<>> /\ ~x.s.nVersion /\ x.s.sel = "none" /\ x.s.asked = 0
      /\ x.s.nTimeConnected = 0 /\ x.s.nLastRecv = Never
  BY <1>4, <1>5, <1>7 DEF Sends, Kept
<1>10. x.s.hSocket /\ ~x.s.fDisconnect /\ x.s.vRecvMsg = <<>> /\ x.w # <<>>
  <2>1. 0 # Never
    BY DEF Never
  <2>2. /\ Stays(h.s, x.s)
        /\ x.w # <<>> \/ x.s.nLastSend = h.s.nLastSend
    BY <1>7 DEF Sends
  <2> QED  BY <1>4, <1>5, <1>7, <2>1, <2>2 DEF Stays
<1>11. x.w \o x.s.vSendMsg = q
  <2>1. <<>> \o q = q
    BY <1>8
  <2>2. x.w \o x.s.vSendMsg = (h.w \o h.s.vSendMsg) \o q
    BY <1>7 DEF Sends
  <2> QED  BY <1>6, <2>1, <2>2
<1>12. Out \in Node /\ In \in Node /\ Peer(Out) = In /\ Peer(In) = Out /\ Out # In
  BY SizesAssumption DEF Node, Peer
<1>13. node[Out] = x.s /\ node[In] = NewNode /\ wire[Out] = x.w /\ wire[In] = <<>> /\ got[Out] = <<>> /\ got[In] = <<>>
  BY <1>1, <1>12
<1>14. Stream(Out) = q /\ Stream(In) = <<>>
  <2>1. <<>> \o q = q /\ <<>> \o (<<>> \o <<>>) = <<>>
    BY <1>8
  <2>2. Stream(Out) = <<>> \o (x.w \o x.s.vSendMsg) /\ Stream(In) = <<>> \o (<<>> \o <<>>)
    BY <1>5, <1>10, <1>12, <1>13 DEF Stream
  <2> QED  BY <1>11, <2>1, <2>2
<1>15. \A n \in Node : n = Out \/ n = In
  BY DEF Node
<1>16. TypeOK
  <2>1. x.s \in CNode /\ x.w \in Seq(Unit) /\ Len(x.w) <= PipeSize
    BY <1>9 DEF Half
  <2>2. <<>> \in Seq(Unit) /\ Len(<<>>) <= PipeSize /\ <<>> \in Seq(Nat)
    BY SizesAssumption
  <2>3. node \in [Node -> CNode] /\ wire \in [Node -> Seq(Unit)] /\ got \in [Node -> Seq(Nat)]
    BY <1>1, <1>3, <2>1, <2>2
  <2> QED  BY <1>1, <1>13, <1>15, <2>1, <2>2, <2>3 DEF TypeOK
<1>17. Frames
  <2>1. Framed(q) /\ q[1].at = 1 /\ Framed(<<>>)
    BY <1>8, WholeNone DEF Whole
  <2> QED  BY <1>14, <1>15, <2>1 DEF Frames
<1>18. Shut
  BY <1>5, <1>10, <1>13, <1>15 DEF Shut
<1>19. Greeting
  BY <1>2, <1>5, <1>8, <1>9, <1>12, <1>13, <1>14, <1>15 DEF Greeting
<1>20. Blocks
  <2>1. Carried(q, "block") = <<>> /\ Carried(q, "getdata") = <<>> /\ Carried(<<>>, "block") = <<>> /\ Carried(<<>>, "getdata") = <<>>
    BY <1>2, CarriedUnits, OfNothing DEF q
  <2>2. <<>> \o (<<>> \o (<<>> \o <<>>)) = <<>> /\ [i \in 1..0 |-> i] = <<>>
    OBVIOUS
  <2>3. ASSUME NEW n \in Node
        PROVE  /\ got[n] = <<>> /\ Carried(Stream(Peer(n)), "block") = <<>> /\ node[Peer(n)].vRecvGetData = <<>>
               /\ Carried(Stream(n), "getdata") = <<>> /\ node[n].asked = 0
    BY <1>5, <1>9, <1>12, <1>13, <1>14, <1>15, <2>1
  <2> QED  BY <2>2, <2>3, Zenon DEF Blocks
<1>21. Buffered
  <2>1. ASSUME NEW n \in Node
        PROVE  /\ node[n].sel = "none" /\ node[n].vRecvMsg = <<>> /\ node[n].vSendMsg \in Seq(Unit)
               /\ Load(node[n].vSendMsg) \in Nat /\ Load(node[n].vSendMsg) <= 1
               /\ Len(Asks(node[n].vSendMsg)) \in Nat
    <3>1. node[n].sel = "none" /\ node[n].vRecvMsg = <<>>
      BY <1>5, <1>9, <1>10, <1>13, <1>15
    <3>2. node[n].vSendMsg \in Seq(Unit)
      BY <1>16, NodeTypes
    <3>3. Load(<<>>) = 0 /\ Load(x.s.vSendMsg) <= 0 + 1
      BY <1>4, <1>5, <1>7, <1>8 DEF Load, Sends
    <3>4. Load(node[n].vSendMsg) <= 1
      BY <1>5, <1>13, <1>15, <3>3
    <3>5. Load(node[n].vSendMsg) \in Nat
      BY <3>2, LoadIsNat
    <3>6. Len(Asks(node[n].vSendMsg)) \in Nat
      BY <3>2, AsksCarried
    <3> QED  BY <3>1, <3>2, <3>4, <3>5, <3>6
  <2>2. Len(Buffers(<<>>)) = 0
    BY OfNothing
  <2>3. SendBufferSize \in Nat /\ SendBufferSize >= 1 /\ Reply \in Nat /\ Reply >= 2 /\ Flood \in Nat /\ Chunk \in Nat /\ Chunk >= 1 /\ BlockSize \in Nat
    BY SizesAssumption DEF Reply, Flood
  <2>4. ReceiveFloodSize \in Nat
    BY SizesAssumption
  <2>5. ASSUME NEW n \in Node
        PROVE  /\ nSendSize(node[n]) - Len(Asks(node[n].vSendMsg)) < SendBufferSize + Reply
               /\ GetTotalRecvSize(node[n]) < Flood + Chunk + BlockSize
               /\ node[n].sel # "recv"
    <3>1. nSendSize(node[n]) = Load(node[n].vSendMsg) /\ GetTotalRecvSize(node[n]) = 0
      BY <2>1, <2>2 DEF nSendSize, Load, GetTotalRecvSize
    <3> QED  BY <2>1, <2>3, <3>1
  <2> QED  BY <2>5 DEF Buffered
<1>22. Healthy
  <2>1. 0 <= PingInterval + 1 /\ Never <= PingInterval + 1 /\ 0 # Never
    BY SizesAssumption DEF Never
  <2>2. Well(Out)
    BY <1>7, <1>9, <1>10, <1>12, <1>13, <2>1 DEF Well
  <2>3. Well(In)
    BY <1>5, <1>12, <1>13, <2>1 DEF Well
  <2> QED  BY <1>15, <2>2, <2>3, HealthyWell
<1> QED  BY <1>16, <1>17, <1>18, <1>19, <1>20, <1>21, <1>22 DEF IInv, Course

LEMMA StutterStep ==
    ASSUME IInv, UNCHANGED vars
    PROVE  IInv'
<1>1. cut' = cut /\ node' = node /\ wire' = wire /\ got' = got
  BY DEF vars
<1>2. \A p \in Node : Stream(p)' = Stream(p)
  BY <1>1 DEF Stream, Peer
<1>3. TypeOK' /\ Shut'
  BY <1>1 DEF IInv, TypeOK, Shut
<1>4. Frames' /\ Greeting'
  BY <1>1, <1>2 DEF IInv, Frames, Greeting
<1>5. Blocks'
  <2>1. ASSUME NEW n \in Node, node'[n].hSocket, node'[Peer(n)].hSocket
        PROVE  got'[n] \o (Carried(Stream(Peer(n))', "block") \o (node'[Peer(n)].vRecvGetData
                   \o Carried(Stream(n)', "getdata"))) = [i \in 1..node'[n].asked |-> i]
    <3>1. Stream(n)' = Stream(n) /\ Stream(Peer(n))' = Stream(Peer(n))
      BY <1>2, Peers
    <3>2. got[n] \o (Carried(Stream(Peer(n)), "block") \o (node[Peer(n)].vRecvGetData
                   \o Carried(Stream(n), "getdata"))) = [i \in 1..node[n].asked |-> i]
      BY <1>1, <2>1, Zenon DEF IInv, Blocks
    <3> QED  BY <1>1, <3>1, <3>2, Zenon
  <2> QED  BY <2>1 DEF Blocks
<1>6. Buffered'
  BY <1>1 DEF IInv, Buffered
<1>7. Course'
  <2>1. Healthy' = Healthy /\ Frozen' = Frozen /\ Over' = Over
    BY <1>1 DEF Healthy, Frozen, Over, Jammed, SelectSend, Writeable, Refused, Peer
  <2> QED  BY <1>1, <2>1 DEF IInv, Course
<1> QED  BY <1>3, <1>4, <1>5, <1>6, <1>7 DEF IInv

LEMMA NextStep ==
    ASSUME IInv, [Next]_vars
    PROVE  IInv'
<1>1. CASE Tick  BY <1>1, TickStep
<1>2. CASE Cut   BY <1>2, CutStep
<1>3. ASSUME NEW n \in Node, Threads(n) \/ Ask(n) PROVE IInv'
  <2>1. CASE Answer(n)           BY <2>1, AnswerStep
  <2>2. CASE ProcessMessages(n)  BY <2>2, ProcessMessagesStep
  <2>3. CASE Ping(n)             BY <2>3, PingStep
  <2>4. CASE Disconnect(n)       BY <2>4, DisconnectStep
  <2>5. CASE Select(n)           BY <2>5, SelectStep
  <2>6. CASE ServiceSend(n)      BY <2>6, ServiceSendStep
  <2>7. CASE ServiceRecv(n)      BY <2>7, ServiceRecvStep
  <2>8. CASE Idle(n)             BY <2>8, IdleStep
  <2>9. CASE Ask(n)              BY <2>9, AskStep
  <2> QED  BY <1>3, <2>1, <2>2, <2>3, <2>4, <2>5, <2>6, <2>7, <2>8, <2>9 DEF Threads
<1>4. CASE UNCHANGED vars  BY <1>4, StutterStep
<1> QED  BY <1>1, <1>2, <1>3, <1>4 DEF Next

\* The invariant of a connection.
LEMMA Always == Spec => []IInv
<1>1. Init => IInv
  BY InitLemma
<1>2. IInv /\ [Next]_vars => IInv'
  BY NextStep
<1> QED  BY <1>1, <1>2, PTL DEF Spec

\* The concatenation of NothingLost, and its parts stream by stream.
InLine(g, a, b, c, v, d, e, f) == g \o a \o b \o c \o v \o d \o e \o f
ByStream(g, a, b, c, v, d, e, f) == g \o ((a \o (b \o c)) \o (v \o (d \o (e \o f))))

LEMMA Regroup ==
    ASSUME NEW g, NEW a, NEW b, NEW c, NEW v, NEW d, NEW e, NEW f,
           {g, a, b, c, v, d, e, f} \subseteq Seq(Nat)
    PROVE  InLine(g, a, b, c, v, d, e, f) = ByStream(g, a, b, c, v, d, e, f)
<1>0. /\ g \in Seq(Nat) /\ a \in Seq(Nat) /\ b \in Seq(Nat) /\ c \in Seq(Nat)
      /\ v \in Seq(Nat) /\ d \in Seq(Nat) /\ e \in Seq(Nat) /\ f \in Seq(Nat)
  OBVIOUS
<1>1. /\ Cat(b, c) \in Seq(Nat) /\ Cat(e, f) \in Seq(Nat) /\ Cat(d, Cat(e, f)) \in Seq(Nat)
      /\ Cat(v, Cat(d, Cat(e, f))) \in Seq(Nat) /\ Cat(a, Cat(b, c)) \in Seq(Nat)
      /\ Cat(g, Cat(a, Cat(b, c))) \in Seq(Nat)
  BY <1>0, CatFacts, Zenon
<1>2. Cat(Cat(Cat(g, a), b), c) = Cat(g, Cat(a, Cat(b, c)))
  <2>1. Cat(g, a) \in Seq(Nat)
    BY <1>0, CatFacts, Zenon
  <2>2. Cat(Cat(Cat(g, a), b), c) = Cat(Cat(g, a), Cat(b, c))
    BY <1>0, <2>1, CatFacts, SMT
  <2>3. Cat(Cat(g, a), Cat(b, c)) = Cat(g, Cat(a, Cat(b, c)))
    BY <1>0, <1>1, CatFacts, SMT
  <2> QED  BY <2>2, <2>3, Zenon
<1>3. ASSUME NEW x \in Seq(Nat) PROVE Cat(Cat(Cat(Cat(x, v), d), e), f) = Cat(x, Cat(v, Cat(d, Cat(e, f))))
  <2>1. Cat(x, v) \in Seq(Nat) /\ Cat(Cat(x, v), d) \in Seq(Nat)
    BY <1>0, CatFacts, Zenon
  <2>2. Cat(Cat(Cat(Cat(x, v), d), e), f) = Cat(Cat(Cat(x, v), d), Cat(e, f))
    BY <1>0, <2>1, CatFacts, SMT
  <2>3. Cat(Cat(Cat(x, v), d), Cat(e, f)) = Cat(Cat(x, v), Cat(d, Cat(e, f)))
    BY <1>0, <1>1, <2>1, CatFacts, SMTT(30)
  <2>4. Cat(Cat(x, v), Cat(d, Cat(e, f))) = Cat(x, Cat(v, Cat(d, Cat(e, f))))
    BY <1>0, <1>1, CatFacts, SMT
  <2> QED  BY <2>2, <2>3, <2>4, Zenon
<1> DEFINE x == Cat(Cat(Cat(g, a), b), c)
           l == Cat(a, Cat(b, c))
           r == Cat(v, Cat(d, Cat(e, f)))
<1>4. x \in Seq(Nat) /\ x = Cat(g, l) /\ l \in Seq(Nat) /\ r \in Seq(Nat)
  BY <1>1, <1>2, Zenon
<1>5. Cat(Cat(Cat(Cat(x, v), d), e), f) = Cat(x, r)
  BY <1>3, <1>4, Zenon
<1>6. Cat(Cat(g, l), r) = Cat(g, Cat(l, r))
  BY <1>0, <1>4, CatFacts, SMT
<1>7. Cat(Cat(Cat(Cat(x, v), d), e), f) = Cat(g, Cat(l, r))
  BY <1>4, <1>5, <1>6, Zenon
<1> QED  BY <1>7, Zenon DEF Cat, InLine, ByStream

\* What a stream carries is what its three parts carry.
LEMMA StreamCarries ==
    ASSUME TypeOK, NEW p \in Node, NEW type
    PROVE  LET a == Carried(node[Peer(p)].vRecvMsg, type)
               b == Carried(wire[p], type)
               c == Carried(node[p].vSendMsg, type)
           IN  /\ a \in Seq(Nat) /\ b \in Seq(Nat) /\ c \in Seq(Nat)
               /\ Carried(Stream(p), type) = a \o (b \o c)
<1> DEFINE us == node[Peer(p)].vRecvMsg
           vs == wire[p]
           ws == node[p].vSendMsg
<1>1. us \in Seq(Unit) /\ vs \in Seq(Unit) /\ ws \in Seq(Unit)
  BY NodeTypes, Peers
<1>2. Stream(p) = us \o (vs \o ws)
  BY DEF Stream
<1> HIDE DEF us, vs, ws
<1>3. vs \o ws \in Seq(Unit)
  BY <1>1
<1>4. Carried(us \o (vs \o ws), type) = Carried(us, type) \o Carried(vs \o ws, type)
  <2> DEFINE ts == vs \o ws
  <2>1. us \in Seq(Unit) /\ ts \in Seq(Unit)
    BY <1>1, <1>3
  <2> HIDE DEF ts
  <2>2. Carried(us \o ts, type) = Carried(us, type) \o Carried(ts, type)
    BY <2>1, CarriedConcat
  <2> QED  BY <2>2 DEF ts
<1>5. /\ Carried(vs \o ws, type) = Carried(vs, type) \o Carried(ws, type)
      /\ Carried(us, type) \in Seq(Nat) /\ Carried(vs, type) \in Seq(Nat) /\ Carried(ws, type) \in Seq(Nat)
  BY <1>1, CarriedConcat
<1> QED  BY <1>2, <1>4, <1>5 DEF us, vs, ws

\* NothingLost for every size of the buffers and any number of blocks: partial
\* sends and receives, full queues and the two threads of both nodes
\* (SocketSendData, ThreadSocketHandler, ProcessMessages, ProcessGetData) lose,
\* repeat and reorder no block while both ends are open.
THEOREM BlocksArrive == Spec => []NothingLost
<1>1. IInv => NothingLost
  <2> SUFFICES ASSUME IInv, NEW n \in Node, node[n].hSocket, node[Peer(n)].hSocket
               PROVE  got[n]
                      \o Carried(node[n].vRecvMsg, "block") \o Carried(wire[Peer(n)], "block")
                      \o Carried(node[Peer(n)].vSendMsg, "block") \o node[Peer(n)].vRecvGetData
                      \o Carried(node[Peer(n)].vRecvMsg, "getdata") \o Carried(wire[n], "getdata")
                      \o Carried(node[n].vSendMsg, "getdata")
                      = [i \in 1..node[n].asked |-> i]
    BY Zenon DEF NothingLost
  <2> DEFINE p == Peer(n)
             g == got[n]
             a == Carried(node[n].vRecvMsg, "block")
             b == Carried(wire[p], "block")
             c == Carried(node[p].vSendMsg, "block")
             v == node[p].vRecvGetData
             d == Carried(node[p].vRecvMsg, "getdata")
             e == Carried(wire[n], "getdata")
             f == Carried(node[n].vSendMsg, "getdata")
  <2>1. TypeOK /\ p \in Node /\ Peer(p) = n
    BY Peers DEF IInv
  <2>2. g \in Seq(Nat) /\ v \in Seq(Nat)
    BY <2>1, NodeTypes
  <2>3. a \in Seq(Nat) /\ b \in Seq(Nat) /\ c \in Seq(Nat) /\ Carried(Stream(p), "block") = a \o (b \o c)
    BY <2>1, StreamCarries, Zenon
  <2>4. d \in Seq(Nat) /\ e \in Seq(Nat) /\ f \in Seq(Nat) /\ Carried(Stream(n), "getdata") = d \o (e \o f)
    BY <2>1, StreamCarries, Zenon
  <2>5. g \o (Carried(Stream(p), "block") \o (v \o Carried(Stream(n), "getdata"))) = [i \in 1..node[n].asked |-> i]
    BY Zenon DEF IInv, Blocks
  <2>6. g \o ((a \o (b \o c)) \o (v \o (d \o (e \o f)))) = [i \in 1..node[n].asked |-> i]
    BY <2>3, <2>4, <2>5, Zenon
  <2> HIDE DEF g, a, b, c, d, e, f, v
  <2>7. {g, a, b, c, v, d, e, f} \subseteq Seq(Nat)
    BY <2>2, <2>3, <2>4
  <2>8. InLine(g, a, b, c, v, d, e, f) = ByStream(g, a, b, c, v, d, e, f)
    BY <2>7, Regroup
  <2> QED  BY <2>6, <2>8, Zenon DEF InLine, ByStream, g, a, b, c, d, e, f, v
<1> QED  BY <1>1, Always, PTL

\* BuffersBounded for every size of the buffers: whatever the other node asks
\* for or sends, the queues of a CNode (nSendSize, GetTotalRecvSize) stay below
\* a bound that does not depend on it.
THEOREM QueuesBounded == Spec => []BuffersBounded
<1>1. IInv => BuffersBounded
  <2> SUFFICES ASSUME IInv, NEW n \in Node
               PROVE  /\ nSendSize(node[n]) - Len(Carried(node[n].vSendMsg, "getdata")) < SendBufferSize + Reply
                      /\ GetTotalRecvSize(node[n]) < Flood + Chunk + BlockSize
    BY DEF BuffersBounded, Reply, Flood
  <2>1. TypeOK /\ Buffered
    BY DEF IInv
  <2>2. node[n].vSendMsg \in Seq(Unit)
    BY <2>1, NodeTypes
  <2> DEFINE l == nSendSize(node[n])
             a == Len(Asks(node[n].vSendMsg))
             c == Len(Carried(node[n].vSendMsg, "getdata"))
  <2>3. a \in Nat /\ c \in Nat /\ a <= c
    BY <2>2, AsksCarried
  <2>4. l = Load(node[n].vSendMsg)
    BY DEF nSendSize, Load
  <2>5. l \in Nat
    BY <2>2, <2>4, LoadIsNat
  <2>6. l - a < SendBufferSize + Reply /\ GetTotalRecvSize(node[n]) < Flood + Chunk + BlockSize
    BY <2>1 DEF Buffered
  <2>7. SendBufferSize \in Nat /\ Reply \in Nat
    BY SizesAssumption DEF Reply
  <2> HIDE DEF l, a, c
  <2> QED  BY <2>3, <2>5, <2>6, <2>7 DEF l, a, c
<1> QED  BY <1>1, Always, PTL

\* A step of one node leaves the record of the other.
LEMMA OthersKept ==
    ASSUME IInv, NEW n \in Node, Threads(n) \/ Ask(n), NEW k \in Node, k # n
    PROVE  node'[k] = node[k]
<1>0. node \in [Node -> CNode]
  BY DEF IInv, TypeOK
<1>1. ASSUME NEW x, There(n, x) PROVE node'[k] = node[k]
  BY <1>0, <1>1 DEF There
<1>2. ASSUME NEW s, node' = [node EXCEPT ![n] = s] PROVE node'[k] = node[k]
  BY <1>0, <1>2
<1>3. \/ \E x : There(n, x)
      \/ \E s : node' = [node EXCEPT ![n] = s]
  <2>1. CASE Answer(n) \/ Ping(n) \/ ProcessMessages(n) \/ Ask(n) \/ ServiceSend(n)
    BY <2>1, Zenon DEF Answer, Ping, ProcessMessages, Ask, ServiceSend
  <2>2. CASE Disconnect(n) \/ Select(n) \/ Idle(n)
    BY <2>2, Zenon DEF Disconnect, Select, Idle
  <2>3. CASE ServiceRecv(n)
    BY <2>3, Zenon DEF ServiceRecv, Closed
  <2> QED  BY <2>1, <2>2, <2>3 DEF Threads
<1> QED  BY <1>1, <1>2, <1>3

\* OnlyJamsExpire for every size of the buffers and every timeout more than
\* twice the interval of the pings: the inactivity check of ThreadSocketHandler
\* ends no connection of a network that works, unless both nodes have filled
\* their sockets and neither reads.
THEOREM LiveStaysOpen == Spec => OnlyJamsExpire
<1> DEFINE Held(n) == ~cut /\ ~node[n].fDisconnect /\ node'[n].fDisconnect /\ node'[n].hSocket => Jammed
<1>1. ASSUME IInv, [Next]_vars PROVE [\A n \in Node : Held(n)]_vars
  <2> SUFFICES ASSUME Next, NEW k \in Node PROVE Held(k)
    BY <1>1
  <2>1. ASSUME node'[k] = node[k] PROVE Held(k)
    BY <2>1
  <2>2. CASE Tick
    <3>1. node'[k] = Aged(node[k]) /\ node[k] \in CNode
      BY <1>1, <2>2 DEF Tick, IInv, TypeOK
    <3>2. node'[k].fDisconnect = node[k].fDisconnect
      BY <3>1, AgedFacts
    <3> QED  BY <3>2
  <2>3. CASE Cut
    BY <2>1, <2>3 DEF Cut
  <2>4. ASSUME NEW n \in Node, Threads(n) \/ Ask(n) PROVE Held(k)
    <3>1. CASE k # n
      <4>1. node'[k] = node[k]
        BY <1>1, <2>4, <3>1, OthersKept
      <4> QED  BY <2>1, <4>1
    <3>2. CASE k = n
      <4>1. ASSUME MarkedClosed(k)' PROVE Held(k)
        BY <4>1 DEF MarkedClosed
      <4>2. CASE Answer(n)           BY <1>1, <3>2, <4>1, <4>2, AnswerStep
      <4>3. CASE ProcessMessages(n)  BY <1>1, <3>2, <4>1, <4>3, ProcessMessagesStep
      <4>4. CASE Ping(n)             BY <1>1, <3>2, <4>1, <4>4, PingStep
      <4>5. CASE Ask(n)              BY <1>1, <3>2, <4>1, <4>5, AskStep
      <4>6. CASE Disconnect(n)       BY <3>2, <4>6 DEF Disconnect
      <4>7. CASE Select(n)
        <5>1. node[n] \in CNode /\ node \in [Node -> CNode]
          BY <1>1 DEF IInv, TypeOK
        <5>2. node'[n] = [node[n] EXCEPT !.sel = Ready(n)]
          BY <4>7, <5>1 DEF Select
        <5>3. node'[n].fDisconnect = node[n].fDisconnect
          BY <5>1, <5>2 DEF CNode
        <5> QED  BY <3>2, <5>3
      <4>8. CASE ServiceSend(n)      BY <1>1, <3>2, <4>8, ServiceSendStep
      <4>9. CASE ServiceRecv(n)      BY <1>1, <3>2, <4>9, ServiceRecvStep
      <4>10. CASE Idle(n)            BY <1>1, <3>2, <4>10, IdleStep
      <4> QED  BY <2>4, <4>2, <4>3, <4>4, <4>5, <4>6, <4>7, <4>8, <4>9, <4>10 DEF Threads
    <3> QED  BY <3>1, <3>2
  <2> QED  BY <2>2, <2>3, <2>4 DEF Next
<1>2. IInv /\ [Next]_vars => [\A n \in Node : Held(n)]_vars
  BY <1>1
<1> QED  BY <1>2, Always, PTL DEF Spec, OnlyJamsExpire
=============================================================================
