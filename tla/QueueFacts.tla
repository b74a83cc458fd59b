----------------------------- MODULE QueueFacts -----------------------------
(* Facts about sequences, their prefixes, suffixes and elements, and about  *)
(* counters that wrap around.                                               *)
EXTENDS Integers, Sequences, Deques, TLAPS

\* A sequence is a function on 1..Len.
LEMMA SeqType ==
  ASSUME NEW S, NEW q \in Seq(S)
  PROVE  /\ Len(q) \in Nat /\ DOMAIN q = 1..Len(q) /\ q \in [1..Len(q) -> S]
         /\ \A i \in 1..Len(q) : q[i] \in S
OBVIOUS

\* The empty one.
LEMMA SeqEmpty ==
  /\ Len(<<>>) = 0
  /\ \A S : <<>> \in Seq(S) /\ \A q \in Seq(S) : q = <<>> <=> Len(q) = 0
OBVIOUS

\* Two with the same elements are the same.
LEMMA SeqSame ==
  ASSUME NEW S, NEW q \in Seq(S), NEW r \in Seq(S), Len(q) = Len(r),
         \A i \in 1..Len(q) : q[i] = r[i]
  PROVE  q = r
OBVIOUS

\* Append.
LEMMA SeqAppend ==
  ASSUME NEW S, NEW q \in Seq(S), NEW e \in S
  PROVE  /\ Append(q, e) \in Seq(S) /\ Len(Append(q, e)) = Len(q) + 1
         /\ Append(q, e)[Len(q) + 1] = e /\ \A i \in 1..Len(q) : Append(q, e)[i] = q[i]
OBVIOUS

\* Concatenation.
LEMMA SeqConcat ==
  ASSUME NEW S, NEW q \in Seq(S), NEW r \in Seq(S)
  PROVE  /\ q \o r \in Seq(S) /\ Len(q \o r) = Len(q) + Len(r)
         /\ \A i \in 1..Len(q) + Len(r) :
               (q \o r)[i] = IF i <= Len(q) THEN q[i] ELSE r[i - Len(q)]
OBVIOUS

\* The empty sequence is neutral.
LEMMA SeqConcatEmpty == ASSUME NEW S, NEW q \in Seq(S) PROVE q \o <<>> = q /\ <<>> \o q = q
OBVIOUS

\* Concatenation is associative.
LEMMA Assoc == \A S : \A s, t, u \in Seq(S) : (s \o t) \o u = s \o (t \o u)
OBVIOUS

\* Appending to the second part is appending to the whole.
LEMMA AppendToConcat ==
  ASSUME NEW S, NEW s \in Seq(S), NEW t \in Seq(S), NEW e \in S
  PROVE  s \o Append(t, e) = Append(s \o t, e)
OBVIOUS

\* Part of a sequence.
LEMMA SeqCut ==
  ASSUME NEW S, NEW q \in Seq(S), NEW m \in 1..Len(q), NEW n \in m..Len(q)
  PROVE  Head(SubSeq(q, m, n)) = q[m] /\ Tail(SubSeq(q, m, n)) = SubSeq(q, m + 1, n)
OBVIOUS

\* An empty part.
LEMMA SeqCutNone == ASSUME NEW q, NEW m \in Int, NEW n \in Int, n < m PROVE SubSeq(q, m, n) = <<>>
OBVIOUS

\* The sequence without its first m elements.
Rest(s, m) == SubSeq(s, m + 1, Len(s))

\* What remains of a sequence is a sequence over the same set.
LEMMA RestType ==
  ASSUME NEW S, NEW s \in Seq(S), NEW m \in 0..Len(s)
  PROVE  /\ Rest(s, m) \in Seq(S)
         /\ Len(Rest(s, m)) = Len(s) - m
         /\ \A i \in 1..Len(s) - m : Rest(s, m)[i] = s[m + i]
BY DEF Rest

\* Dropping nothing.
LEMMA RestOfNone == ASSUME NEW S, NEW s \in Seq(S) PROVE Rest(s, 0) = s
BY DEF Rest

\* All but the first element.
LEMMA SeqTail ==
  ASSUME NEW S, NEW q \in Seq(S), q # <<>>
  PROVE  /\ Head(q) \in S /\ Head(q) = q[1] /\ Tail(q) \in Seq(S) /\ Len(Tail(q)) = Len(q) - 1
         /\ \A i \in 1..Len(q) - 1 : Tail(q)[i] = q[i + 1]
         /\ Tail(q) = Rest(q, 1)
BY DEF Rest

\* A prefix.
LEMMA PrefixType ==
  ASSUME NEW S, NEW s \in Seq(S), NEW n \in 0..Len(s)
  PROVE  /\ SubSeq(s, 1, n) \in Seq(S)
         /\ Len(SubSeq(s, 1, n)) = n
         /\ \A i \in 1..n : SubSeq(s, 1, n)[i] = s[i]
OBVIOUS

\* Dropping m elements and then n is dropping m + n.
LEMMA RestOfRest ==
  ASSUME NEW S, NEW s \in Seq(S), NEW m \in Nat, NEW n \in Nat, m + n <= Len(s)
  PROVE  Rest(Rest(s, m), n) = Rest(s, m + n)
BY DEF Rest

\* A prefix and the rest make up the sequence.
LEMMA PrefixRest ==
  ASSUME NEW S, NEW s \in Seq(S), NEW n \in 0..Len(s)
  PROVE  SubSeq(s, 1, n) \o Rest(s, n) = s
<1> DEFINE a == SubSeq(s, 1, n)
<1> DEFINE b == Rest(s, n)
<1>0. Len(s) \in Nat
  BY SeqType
<1>1. a \in Seq(S) /\ Len(a) = n /\ \A i \in 1..n : a[i] = s[i]
  BY PrefixType
<1>2. b \in Seq(S) /\ Len(b) = Len(s) - n /\ \A i \in 1..Len(s) - n : b[i] = s[n + i]
  BY RestType
<1> HIDE DEF a, b
<1>3. /\ a \o b \in Seq(S) /\ Len(a \o b) = Len(a) + Len(b)
      /\ \A i \in 1 .. Len(a) + Len(b) : (a \o b)[i] = IF i <= Len(a) THEN a[i] ELSE b[i - Len(a)]
  BY <1>1, <1>2, SeqConcat
<1>4. Len(a \o b) = Len(s)
  BY <1>0, <1>1, <1>2, <1>3
<1>5. \A i \in 1..Len(a \o b) : (a \o b)[i] = s[i]
  BY <1>0, <1>1, <1>2, <1>3, <1>4
<1>6. a \o b = s
  BY Zenon, <1>3, <1>4, <1>5, SeqSame
<1> QED BY <1>6 DEF a, b

\* Dropping elements of the first part of a concatenation.
LEMMA RestOfConcat ==
  ASSUME NEW S, NEW s \in Seq(S), NEW t \in Seq(S), NEW m \in 0..Len(s)
  PROVE  Rest(s \o t, m) = Rest(s, m) \o t
<1> DEFINE a == s \o t
<1> DEFINE b == Rest(s, m)
<1> DEFINE c == Rest(a, m)
<1> DEFINE d == b \o t
<1>0. Len(s) \in Nat /\ Len(t) \in Nat
  BY SeqType
<1>1. /\ a \in Seq(S) /\ Len(a) = Len(s) + Len(t)
      /\ \A i \in 1 .. Len(s) + Len(t) : a[i] = IF i <= Len(s) THEN s[i] ELSE t[i - Len(s)]
  BY SeqConcat
<1>2. b \in Seq(S) /\ Len(b) = Len(s) - m /\ \A i \in 1..Len(s) - m : b[i] = s[m + i]
  BY RestType
<1> HIDE DEF a, b
<1>3. m \in 0..Len(a)
  BY <1>0, <1>1
<1>4. c \in Seq(S) /\ Len(c) = Len(a) - m /\ \A i \in 1..Len(a) - m : c[i] = a[m + i]
  BY ZenonT(30), <1>1, <1>3, RestType
<1>5. /\ d \in Seq(S) /\ Len(d) = Len(b) + Len(t)
      /\ \A i \in 1 .. Len(b) + Len(t) : d[i] = IF i <= Len(b) THEN b[i] ELSE t[i - Len(b)]
  BY Zenon, <1>2, SeqConcat
<1> HIDE DEF c, d
<1>6. Len(c) = Len(d)
  BY <1>0, <1>1, <1>2, <1>4, <1>5
<1>7. \A i \in 1..Len(c) : c[i] = d[i]
  <2> TAKE i \in 1..Len(c)
  <2>1. /\ c[i] = a[m + i] /\ m + i \in 1..Len(s) + Len(t) /\ i \in 1..Len(b) + Len(t)
        /\ i \in Int /\ m \in Int
    BY <1>0, <1>1, <1>2, <1>4
  <2>2. CASE m + i <= Len(s)
    <3>1. c[i] = s[m + i]
      BY <2>1, <2>2, <1>1
    <3>2. i <= Len(b) /\ i \in 1..Len(s) - m
      BY <2>1, <2>2, <1>0, <1>2
    <3>3. d[i] = b[i] /\ b[i] = s[m + i]
      BY <2>1, <3>2, <1>2, <1>5
    <3> QED BY <3>1, <3>3
  <2>3. CASE ~(m + i <= Len(s))
    <3>1. c[i] = t[(m + i) - Len(s)]
      BY <2>1, <2>3, <1>1
    <3>2. ~(i <= Len(b)) /\ i - Len(b) = (m + i) - Len(s)
      BY <2>1, <2>3, <1>0, <1>2
    <3>3. d[i] = t[i - Len(b)]
      BY <2>1, <3>2, <1>5
    <3> QED BY <3>1, <3>2, <3>3
  <2> QED BY <2>2, <2>3
<1>8. c = d
  BY Zenon, <1>4, <1>5, <1>6, <1>7, SeqSame
<1> QED BY <1>8 DEF a, b, c, d

\* A value modulo m is below m.
LEMMA ModType ==
  ASSUME NEW a \in Int, NEW m \in Nat \ {0}
  PROVE  a % m \in 0..m-1
  OBVIOUS

\* Division with remainder.
LEMMA DivMod ==
  ASSUME NEW a \in Int, NEW m \in Nat \ {0}
  PROVE  a = m * (a \div m) + (a % m) /\ a \div m \in Int
  OBVIOUS

\* The remainder is unique.
LEMMA ModUnique ==
  ASSUME NEW q \in Int, NEW m \in Nat \ {0}, NEW r \in 0..m-1
  PROVE  (m * q + r) % m = r
<1> DEFINE a == m*q+r
<1>1. a \in Int /\ a = m * (a \div m) + (a % m) /\ a \div m \in Int /\ a % m \in 0..m-1
  BY DivMod, ModType
<1> DEFINE p == a \div m
<1> DEFINE s == a % m
<1>2. p \in Int /\ s \in 0..m-1 /\ m*q+r = m*p+s
  BY <1>1
<1> HIDE DEF p, s
<1>3. CASE p = q
   BY <1>2, <1>3
<1>4. CASE p > q
  <2>1. PICK k \in Nat : p = q + 1 + k
    <3>1. p - q - 1 \in Nat /\ p = q + 1 + (p - q - 1)
      BY <1>2, <1>4
    <3> QED BY <3>1
  <2>2. m * p = m*q + m + m * k
    BY <2>1
  <2>3. m * k >= 0 
    BY <2>1
  <2> QED BY <2>2, <2>3, <1>2
<1>5. CASE p < q
  <2>1. PICK k \in Nat : q = p + 1 + k
    <3>1. q - p - 1 \in Nat /\ q = p + 1 + (q - p - 1)
      BY <1>2, <1>5
    <3> QED BY <3>1
  <2>2. m * q = m*p + m + m * k
    BY <1>2, <2>1
  <2>3. m * k >= 0 
    BY <2>1
  <2> QED BY <2>2, <2>3, <1>2
<1>6. r = s
  BY <1>2, <1>3, <1>4, <1>5
<1> QED BY <1>6 DEF s

\* A wrapping counter may be added to (or subtracted from) before or after
\* it wraps.
LEMMA ModAdd ==
  ASSUME NEW a \in Int, NEW d \in Int, NEW m \in Nat \ {0}
  PROVE  ((a % m) + d) % m = (a + d) % m
<1>1. a = m * (a \div m) + (a % m) /\ a \div m \in Int /\ a % m \in Int
  BY DivMod, ModType
<1> DEFINE q == a \div m
<1> DEFINE r == a % m
<1>2. q \in Int /\ r \in Int /\ a = m*q + r BY <1>1
<1> HIDE DEF q, r
<1> DEFINE p == (r+d) \div m
<1> DEFINE s == (r+d) % m
<1>2a. r + d \in Int
  BY <1>2
<1>3. r + d = m * p + s /\ p \in Int /\ s \in 0..m-1
  BY Zenon, <1>2a, DivMod, ModType
<1> HIDE DEF p, s
<1>4. a + d = m * q + m * p + s /\ m*q + m*p = m * (q+p) /\ q+p \in Int
  BY <1>2, <1>3
<1>5. a + d = m * (q+p) + s 
  BY <1>2, <1>3, <1>4
<1>6. (m * (q+p) + s) % m = s
  BY <1>4, <1>3, ModUnique
<1>7. (a + d) % m = s BY <1>5, <1>6
<1> QED BY <1>7 DEF s, r

\* A sequence that repeats nothing.
NoRepeats(q) == \A i, j \in 1..Len(q) : q[i] = q[j] => i = j

\* The empty sequence.
LEMMA EmptyEntries == Entries(<<>>) = {} /\ NoRepeats(<<>>)
BY DEF Entries, NoRepeats

\* Appending.
LEMMA AppendEntries ==
  ASSUME NEW S, NEW q \in Seq(S), NEW e \in S
  PROVE  /\ Append(q, e) \in Seq(S) /\ Len(Append(q, e)) = Len(q) + 1
         /\ Entries(Append(q, e)) = Entries(q) \cup {e}
         /\ NoRepeats(q) /\ e \notin Entries(q) => NoRepeats(Append(q, e))
<1> DEFINE t == Append(q, e)
<1>1. Len(q) \in Nat
  BY SeqType
<1>2. /\ t \in Seq(S) /\ Len(t) = Len(q) + 1 /\ t[Len(q) + 1] = e
      /\ \A i \in 1..Len(q) : t[i] = q[i]
  BY SeqAppend
<1> HIDE DEF t
<1>3. \A i : i \in 1..Len(t) <=> i \in 1..Len(q) \/ i = Len(q) + 1
  BY <1>1, <1>2
<1>4. \A x : x \in Entries(t) <=> x \in Entries(q) \/ x = e
  BY <1>2, <1>3 DEF Entries
<1>5. NoRepeats(q) /\ e \notin Entries(q) => NoRepeats(t)
  BY <1>2, <1>3 DEF Entries, NoRepeats
<1> QED BY <1>2, <1>4, <1>5 DEF t

\* Dropping the first m elements.
LEMMA RestEntries ==
  ASSUME NEW S, NEW q \in Seq(S), NoRepeats(q), NEW m \in 0..Len(q)
  PROVE  /\ Rest(q, m) \in Seq(S) /\ NoRepeats(Rest(q, m))
         /\ Len(Rest(q, m)) = Len(q) - m
         /\ Entries(Rest(q, m)) = Entries(q) \ {q[i] : i \in 1..m}
<1> DEFINE t == Rest(q, m)
<1>1. t \in Seq(S) /\ Len(t) = Len(q) - m /\ \A i \in 1..Len(q) - m : t[i] = q[m + i]
  BY RestType
<1>2. Len(q) \in Nat /\ m \in Nat
  BY SeqType
<1> HIDE DEF t
<1>3. \A i \in 1..Len(t) : m + i \in 1..Len(q) /\ t[i] = q[m + i] /\ m + i \notin 1..m
  BY <1>1, <1>2
<1>4. NoRepeats(t)
  <2> SUFFICES ASSUME NEW i \in 1..Len(t), NEW j \in 1..Len(t), t[i] = t[j] PROVE i = j
    BY DEF NoRepeats
  <2>1. m + i = m + j
    BY <1>3 DEF NoRepeats
  <2> QED BY <1>2, <2>1
<1>5. \A k \in 1..Len(q) : k \in 1..m \/ (k - m \in 1..Len(t) /\ t[k - m] = q[k])
  BY <1>1, <1>2
<1>6. \A k \in 1..m : k \in 1..Len(q)
  BY <1>2
<1>7. ASSUME NEW x PROVE x \in Entries(t) <=> x \in Entries(q) /\ x \notin {q[i] : i \in 1..m}
  <2>1. ASSUME x \in Entries(t) PROVE x \in Entries(q) /\ x \notin {q[i] : i \in 1..m}
    <3>1. PICK i \in 1..Len(t) : x = t[i]
      BY <2>1 DEF Entries
    <3>2. m + i \in 1..Len(q) /\ x = q[m + i] /\ m + i \notin 1..m
      BY <1>3, <3>1
    <3> QED BY <3>2, <1>6 DEF Entries, NoRepeats
  <2>2. ASSUME x \in Entries(q), x \notin {q[i] : i \in 1..m} PROVE x \in Entries(t)
    BY <2>2, <1>5 DEF Entries
  <2> QED BY <2>1, <2>2
<1>8. Entries(t) = Entries(q) \ {q[i] : i \in 1..m}
  BY <1>7
<1> QED BY <1>1, <1>4, <1>8 DEF t

\* The elements of a sequence over S are in S.
LEMMA EntriesIn ==
  ASSUME NEW S, NEW q \in Seq(S)
  PROVE  Entries(q) \subseteq S /\ \A i \in 1..Len(q) : q[i] \in Entries(q)
BY SeqType DEF Entries

\* Taking the first element off.
LEMMA TailEntries ==
  ASSUME NEW S, NEW q \in Seq(S), NoRepeats(q), q # <<>>
  PROVE  /\ Tail(q) \in Seq(S) /\ NoRepeats(Tail(q)) /\ Head(q) \in Entries(q)
         /\ Entries(Tail(q)) = Entries(q) \ {Head(q)}
<1>1. Len(q) \in Nat /\ Len(q) # 0
  BY SeqEmpty, SeqType
<1>2. 1 \in 0..Len(q) /\ 1 \in 1..Len(q) /\ Head(q) = q[1]
  BY <1>1
<1>3. {q[i] : i \in 1..1} = {q[1]}
  OBVIOUS
<1>4. Tail(q) = Rest(q, 1)
  BY <1>1 DEF Rest
<1>5. /\ Rest(q, 1) \in Seq(S) /\ NoRepeats(Rest(q, 1))
      /\ Entries(Rest(q, 1)) = Entries(q) \ {q[i] : i \in 1..1}
  BY <1>2, RestEntries
<1>6. q[1] \in Entries(q)
  BY <1>2, EntriesIn
<1> QED BY Zenon, <1>2, <1>3, <1>4, <1>5, <1>6

\* The first m elements.
LEMMA PrefixEntries ==
  ASSUME NEW S, NEW q \in Seq(S), NoRepeats(q), NEW m \in 0..Len(q)
  PROVE  /\ SubSeq(q, 1, m) \in Seq(S) /\ NoRepeats(SubSeq(q, 1, m))
         /\ Entries(SubSeq(q, 1, m)) = {q[i] : i \in 1..m} /\ {q[i] : i \in 1..m} \subseteq Entries(q)
<1> DEFINE p == SubSeq(q, 1, m)
<1>1. p \in Seq(S) /\ Len(p) = m /\ \A i \in 1..m : p[i] = q[i]
  BY PrefixType
<1>2. \A i \in 1..m : i \in 1..Len(q)
  BY SeqType
<1> HIDE DEF p
<1>3. NoRepeats(p) /\ Entries(p) = {q[i] : i \in 1..m} /\ {q[i] : i \in 1..m} \subseteq Entries(q)
  BY <1>1, <1>2 DEF NoRepeats, Entries
<1> QED BY <1>1, <1>3 DEF p

-----------------------------------------------------------------------------
(* Tasks that go from a queue to batches, and run.                         *)

\* Tasks of T between a submission and the threads of W: the ones in the queue q and in
\* the batches td of the threads; and that each of the submitted ones is in one place
\* until it has run, once.
Waiting(W, q, td) == Entries(q) \cup UNION {Entries(td[w]) : w \in W}

Once(T, W, sub, q, td, rn) ==
    /\ sub \subseteq T /\ q \in Seq(T) /\ td \in [W -> Seq(T)] /\ rn \in [T -> Nat]
    /\ NoRepeats(q)
    /\ \A w \in W : NoRepeats(td[w]) /\ Entries(td[w]) \cap Entries(q) = {}
    /\ \A v, w \in W : v # w => Entries(td[v]) \cap Entries(td[w]) = {}
    /\ Waiting(W, q, td) \subseteq sub
    /\ \A t \in T : rn[t] = IF t \in sub \ Waiting(W, q, td) THEN 1 ELSE 0

\* A task that is submitted joins the queue.
LEMMA OnceSubmit ==
  ASSUME NEW T, NEW W, NEW sub, NEW q, NEW td, NEW rn, Once(T, W, sub, q, td, rn),
         NEW sub1, NEW q1, NEW td1, NEW rn1,
         NEW t \in T, t \notin sub, sub1 = sub \cup {t},
         q1 = Append(q, t), td1 = td, rn1 = rn
  PROVE  Once(T, W, sub1, q1, td1, rn1)
<1>0. /\ sub \subseteq T /\ q \in Seq(T) /\ td \in [W -> Seq(T)] /\ rn \in [T -> Nat]
      /\ NoRepeats(q)
      /\ \A v \in W : NoRepeats(td[v]) /\ Entries(td[v]) \cap Entries(q) = {}
      /\ \A u, v \in W : u # v => Entries(td[u]) \cap Entries(td[v]) = {}
      /\ Waiting(W, q, td) \subseteq sub
      /\ \A x \in T : rn[x] = IF x \in sub \ Waiting(W, q, td) THEN 1 ELSE 0
  BY DEF Once
<1>1. /\ t \notin sub /\ sub1 = sub \cup {t}
      /\ q1 = Append(q, t) /\ td1 = td /\ rn1 = rn
  OBVIOUS
<1>2. t \notin Waiting(W, q, td) /\ t \notin Entries(q) /\ \A w \in W : t \notin Entries(td[w])
  BY <1>0, <1>1 DEF Waiting
<1>3. q1 \in Seq(T) /\ NoRepeats(q1) /\ Entries(q1) = Entries(q) \cup {t}
  BY <1>0, <1>1, <1>2, AppendEntries
<1>4. Waiting(W, q1, td1) = Waiting(W, q, td) \cup {t}
  BY <1>1, <1>3 DEF Waiting
<1>5. sub1 \ Waiting(W, q1, td1) = sub \ Waiting(W, q, td)
  BY <1>1, <1>2, <1>4
<1> QED BY <1>0, <1>1, <1>2, <1>3, <1>4, <1>5 DEF Once

\* A batch moves from the queue to a worker.
LEMMA OnceTake ==
  ASSUME NEW T, NEW W, NEW sub, NEW q, NEW td, NEW rn, Once(T, W, sub, q, td, rn),
         NEW sub1, NEW q1, NEW td1, NEW rn1,
         NEW w \in W, NEW n \in Nat, n <= Len(q), td[w] = <<>>,
         td1 = [td EXCEPT ![w] = SubSeq(q, 1, n)], q1 = Rest(q, n), sub1 = sub, rn1 = rn
  PROVE  Once(T, W, sub1, q1, td1, rn1)
<1>0. /\ sub \subseteq T /\ q \in Seq(T) /\ td \in [W -> Seq(T)] /\ rn \in [T -> Nat]
      /\ NoRepeats(q)
      /\ \A v \in W : NoRepeats(td[v]) /\ Entries(td[v]) \cap Entries(q) = {}
      /\ \A u, v \in W : u # v => Entries(td[u]) \cap Entries(td[v]) = {}
      /\ Waiting(W, q, td) \subseteq sub
      /\ \A x \in T : rn[x] = IF x \in sub \ Waiting(W, q, td) THEN 1 ELSE 0
  BY DEF Once
<1>1. td1 = [td EXCEPT ![w] = SubSeq(q, 1, n)] /\ q1 = Rest(q, n) /\ n <= Len(q)
  OBVIOUS
<1>2. td[w] = <<>> /\ sub1 = sub /\ rn1 = rn
  OBVIOUS
<1>3. n \in 0..Len(q)
  BY <1>0, <1>1, SeqType
<1> DEFINE front == SubSeq(q, 1, n)
<1>4. /\ front \in Seq(T) /\ q1 \in Seq(T) /\ NoRepeats(front) /\ NoRepeats(q1)
      /\ Entries(front) \cup Entries(q1) = Entries(q)
      /\ Entries(front) \cap Entries(q1) = {}
  <2>1. /\ front \in Seq(T) /\ NoRepeats(front)
        /\ Entries(front) = {q[i] : i \in 1..n} /\ Entries(front) \subseteq Entries(q)
    BY <1>0, <1>3, PrefixEntries
  <2>2. q1 \in Seq(T) /\ NoRepeats(q1) /\ Entries(q1) = Entries(q) \ {q[i] : i \in 1..n}
    BY <1>0, <1>1, <1>3, RestEntries
  <2> HIDE DEF front
  <2> QED BY Zenon, <2>1, <2>2
<1> HIDE DEF front
<1>5. /\ td1 \in [W -> Seq(T)] /\ td1[w] = front
      /\ \A v \in W : v # w => td1[v] = td[v]
  BY <1>0, <1>1, <1>4 DEF front
<1>6. Entries(td[w]) = {}
  BY <1>2, SeqEmpty DEF Entries
<1>7. Waiting(W, q1, td1) = Waiting(W, q, td)
  <2>1. \A t : t \in Waiting(W, q1, td1) <=> t \in Entries(q1) \/ \E v \in W : t \in Entries(td1[v])
    BY DEF Waiting
  <2>2. \A t : t \in Waiting(W, q, td) <=> t \in Entries(q) \/ \E v \in W : t \in Entries(td[v])
    BY DEF Waiting
  <2> QED BY Zenon, <1>4, <1>5, <1>6, <2>1, <2>2
<1>8. \A v \in W : NoRepeats(td1[v]) /\ Entries(td1[v]) \cap Entries(q1) = {}
  BY Zenon, <1>0, <1>4, <1>5
<1>9. \A u, v \in W : u # v => Entries(td1[u]) \cap Entries(td1[v]) = {}
  BY ZenonT(30), <1>0, <1>4, <1>5
<1> QED BY ZenonT(30), <1>0, <1>2, <1>4, <1>5, <1>7, <1>8, <1>9 DEF Once

\* The first task of a batch runs.
LEMMA OnceRun ==
  ASSUME NEW T, NEW W, NEW sub, NEW q, NEW td, NEW rn, Once(T, W, sub, q, td, rn),
         NEW sub1, NEW q1, NEW td1, NEW rn1,
         NEW w \in W, td[w] # <<>>, rn1 = [rn EXCEPT ![Head(td[w])] = @ + 1],
         td1 = [td EXCEPT ![w] = Tail(td[w])], sub1 = sub, q1 = q
  PROVE  Once(T, W, sub1, q1, td1, rn1)
<1>0. /\ sub \subseteq T /\ q \in Seq(T) /\ td \in [W -> Seq(T)] /\ rn \in [T -> Nat]
      /\ NoRepeats(q)
      /\ \A v \in W : NoRepeats(td[v]) /\ Entries(td[v]) \cap Entries(q) = {}
      /\ \A u, v \in W : u # v => Entries(td[u]) \cap Entries(td[v]) = {}
      /\ Waiting(W, q, td) \subseteq sub
      /\ \A x \in T : rn[x] = IF x \in sub \ Waiting(W, q, td) THEN 1 ELSE 0
  BY DEF Once
<1> DEFINE h == Head(td[w])
<1>1. /\ td[w] # <<>> /\ rn1 = [rn EXCEPT ![h] = @ + 1]
      /\ td1 = [td EXCEPT ![w] = Tail(td[w])]
      /\ sub1 = sub /\ q1 = q
  OBVIOUS
<1>2. /\ h \in T /\ Tail(td[w]) \in Seq(T) /\ NoRepeats(Tail(td[w]))
      /\ Entries(td[w]) = {h} \cup Entries(Tail(td[w]))
      /\ h \notin Entries(Tail(td[w]))
  <2>1. /\ Tail(td[w]) \in Seq(T) /\ NoRepeats(Tail(td[w])) /\ h \in Entries(td[w])
        /\ Entries(Tail(td[w])) = Entries(td[w]) \ {h}
    BY <1>0, <1>1, TailEntries
  <2>2. Entries(td[w]) \subseteq T
    BY <1>0, EntriesIn
  <2> HIDE DEF h
  <2> QED BY Zenon, <2>1, <2>2
<1> HIDE DEF h
<1>3. /\ td1 \in [W -> Seq(T)] /\ td1[w] = Tail(td[w])
      /\ \A v \in W : v # w => td1[v] = td[v]
  BY <1>0, <1>1, <1>2
<1>4. /\ \A t : t \in Waiting(W, q, td) <=> t \in Entries(q) \/ \E v \in W : t \in Entries(td[v])
      /\ \A t : t \in Waiting(W, q1, td1) <=> t \in Entries(q1) \/ \E v \in W : t \in Entries(td1[v])
  BY DEF Waiting
<1>5. h \in Waiting(W, q, td) /\ h \notin Waiting(W, q1, td1)
  BY Zenon, <1>0, <1>1, <1>2, <1>3, <1>4
<1>6. Waiting(W, q, td) = Waiting(W, q1, td1) \cup {h}
  BY ZenonT(30), <1>1, <1>2, <1>3, <1>4, <1>5
<1>7. h \in sub /\ rn[h] = 0
  BY <1>0, <1>2, <1>5
<1>8. rn1 \in [T -> Nat] /\ rn1[h] = 1 /\ \A t \in T : t # h => rn1[t] = rn[t]
  BY <1>0, <1>1, <1>2, <1>7
<1>9. \A t \in T : rn1[t] = IF t \in sub1 \ Waiting(W, q1, td1) THEN 1 ELSE 0
  <2>1. \A t \in T : t # h => (t \in sub1 \ Waiting(W, q1, td1) <=> t \in sub \ Waiting(W, q, td))
    BY <1>1, <1>6
  <2>2. h \in sub1 \ Waiting(W, q1, td1)
    BY <1>1, <1>5, <1>7
  <2>3. \A t \in T : rn[t] = IF t \in sub \ Waiting(W, q, td) THEN 1 ELSE 0
    BY <1>0
  <2> QED BY Zenon, <1>8, <2>1, <2>2, <2>3
<1>10. \A v \in W : NoRepeats(td1[v]) /\ Entries(td1[v]) \cap Entries(q1) = {}
  BY <1>0, <1>1, <1>2, <1>3
<1>11. \A u, v \in W : u # v => Entries(td1[u]) \cap Entries(td1[v]) = {}
  BY <1>0, <1>2, <1>3
<1>12. Waiting(W, q1, td1) \subseteq sub1
  BY Zenon, <1>0, <1>1, <1>6
<1> QED BY Zenon, <1>0, <1>1, <1>3, <1>8, <1>9, <1>10, <1>11, <1>12 DEF Once
=============================================================================
