---------------------------- MODULE IoUringProofs --------------------------
(***************************************************************************)
(* What the operations on a ring do to the requests in it, for any set of  *)
(* requests.  The proofs about the programs that use io_uring rest on      *)
(* these lemmas.                                                           *)
(***************************************************************************)
EXTENDS Integers, IoUring, FiniteSetTheorems, SequenceTheorems, TLAPS

\* rings whose requests are of R
Completions(R) == [req : R, res : Int]
Rings(R) == [sq : Seq(R), flight : SUBSET R, cq : Seq(Completions(R))]

Elements(s) == {s[i] : i \in DOMAIN s}
Distinct(s) == \A i, j \in DOMAIN s : s[i] = s[j] => i = j

Prepared(ring) == Elements(ring.sq)
Completed(ring) == {c.req : c \in Elements(ring.cq)}
Requests(ring) == Prepared(ring) \cup ring.flight \cup Completed(ring)

\* No request is in the ring twice.
OnePlace(ring) ==
  /\ Distinct(ring.sq)
  /\ \A i, j \in DOMAIN ring.cq : ring.cq[i].req = ring.cq[j].req => i = j
  /\ Prepared(ring) \cap ring.flight = {}
  /\ Prepared(ring) \cap Completed(ring) = {}
  /\ ring.flight \cap Completed(ring) = {}

----------------------------------------------------------------------------
(* Sequences as queues                                                     *)

LEMMA AppendAt ==
  ASSUME NEW S, NEW s \in Seq(S), NEW e \in S
  PROVE  /\ Append(s, e) \in Seq(S)
         /\ Len(s) \in Nat /\ Len(Append(s, e)) = Len(s) + 1
         /\ DOMAIN s = 1 .. Len(s) /\ DOMAIN Append(s, e) = 1 .. Len(s) + 1
         /\ \A i \in 1 .. Len(s) : Append(s, e)[i] = s[i]
         /\ Append(s, e)[Len(s) + 1] = e
  OBVIOUS

LEMMA TailAt ==
  ASSUME NEW S, NEW s \in Seq(S), s # << >>
  PROVE  /\ Tail(s) \in Seq(S) /\ Head(s) \in S /\ Head(s) = s[1]
         /\ Len(s) \in Nat /\ Len(s) >= 1 /\ Len(Tail(s)) = Len(s) - 1
         /\ DOMAIN s = 1 .. Len(s) /\ DOMAIN Tail(s) = 1 .. Len(s) - 1
         /\ \A i \in 1 .. Len(s) - 1 : Tail(s)[i] = s[i + 1]
  OBVIOUS

\* Append adds one element at the end.
LEMMA AppendElements ==
  ASSUME NEW S, NEW s \in Seq(S), NEW e \in S
  PROVE  /\ Append(s, e) \in Seq(S)
         /\ Elements(Append(s, e)) = Elements(s) \cup {e}
         /\ Distinct(s) /\ e \notin Elements(s) => Distinct(Append(s, e))
<1>1. /\ Append(s, e) \in Seq(S)
      /\ DOMAIN Append(s, e) = 1 .. Len(s) + 1 /\ DOMAIN s = 1 .. Len(s) /\ Len(s) \in Nat
      /\ \A i \in 1 .. Len(s) : Append(s, e)[i] = s[i]
      /\ Append(s, e)[Len(s) + 1] = e
  BY AppendAt
<1>2. Elements(Append(s, e)) = Elements(s) \cup {e}
  <2>1. ASSUME NEW x \in Elements(Append(s, e)) PROVE x \in Elements(s) \cup {e}
    BY <1>1 DEF Elements
  <2>2. ASSUME NEW x \in Elements(s) \cup {e} PROVE x \in Elements(Append(s, e))
    BY <1>1 DEF Elements
  <2> QED BY <2>1, <2>2
<1>3. Distinct(s) /\ e \notin Elements(s) => Distinct(Append(s, e))
  BY <1>1 DEF Distinct, Elements
<1> QED BY <1>1, <1>2, <1>3

\* Tail takes the first element away.
LEMMA TailElements ==
  ASSUME NEW S, NEW s \in Seq(S), s # << >>
  PROVE  /\ Head(s) \in S /\ Tail(s) \in Seq(S)
         /\ Elements(s) = Elements(Tail(s)) \cup {Head(s)}
         /\ Distinct(s) => Distinct(Tail(s)) /\ Head(s) \notin Elements(Tail(s))
<1>1. /\ Tail(s) \in Seq(S) /\ Head(s) \in S
      /\ DOMAIN s = 1 .. Len(s) /\ DOMAIN Tail(s) = 1 .. Len(s) - 1
      /\ Len(s) \in Nat /\ Len(s) >= 1
      /\ \A i \in 1 .. Len(s) - 1 : Tail(s)[i] = s[i + 1]
      /\ Head(s) = s[1]
  BY TailAt
<1>2. Elements(s) = Elements(Tail(s)) \cup {Head(s)}
  <2>1. ASSUME NEW x \in Elements(s) PROVE x \in Elements(Tail(s)) \cup {Head(s)}
    <3>1. PICK i \in 1 .. Len(s) : x = s[i]
      BY <1>1 DEF Elements
    <3>2. CASE i = 1
      BY <1>1, <3>1, <3>2
    <3>3. CASE i # 1
      <4>1. i - 1 \in 1 .. Len(s) - 1 /\ Tail(s)[i - 1] = x
        BY <1>1, <3>1, <3>3
      <4> QED BY <1>1, <4>1 DEF Elements
    <3> QED BY <3>2, <3>3
  <2>2. ASSUME NEW x \in Elements(Tail(s)) \cup {Head(s)} PROVE x \in Elements(s)
    BY <1>1 DEF Elements
  <2> QED BY <2>1, <2>2
<1>3. Distinct(s) => Distinct(Tail(s)) /\ Head(s) \notin Elements(Tail(s))
  BY <1>1 DEF Distinct, Elements
<1> QED BY <1>1, <1>2, <1>3

\* A sequence behind another one.
LEMMA ConcatElements ==
  ASSUME NEW S, NEW s \in Seq(S), NEW t \in Seq(S)
  PROVE  /\ s \o t \in Seq(S) /\ Len(s \o t) = Len(s) + Len(t)
         /\ Elements(s \o t) = Elements(s) \cup Elements(t)
         /\ Distinct(s) /\ Distinct(t) /\ Elements(s) \cap Elements(t) = {} => Distinct(s \o t)
<1>1. /\ s \o t \in Seq(S) /\ Len(s \o t) = Len(s) + Len(t)
      /\ Len(s) \in Nat /\ Len(t) \in Nat /\ DOMAIN s = 1 .. Len(s) /\ DOMAIN t = 1 .. Len(t)
      /\ DOMAIN (s \o t) = 1 .. Len(s) + Len(t)
      /\ \A i \in 1 .. Len(s) : (s \o t)[i] = s[i]
      /\ \A i \in 1 .. Len(t) : (s \o t)[Len(s) + i] = t[i]
  OBVIOUS
<1>2. \A k \in 1 .. Len(s) + Len(t) :
        k \in 1 .. Len(s) \/ \E i \in 1 .. Len(t) : k = Len(s) + i
  <2>1. ASSUME NEW k \in 1 .. Len(s) + Len(t), k \notin 1 .. Len(s)
        PROVE  k - Len(s) \in 1 .. Len(t) /\ k = Len(s) + (k - Len(s))
    BY <1>1, <2>1
  <2> QED BY <2>1
<1>3. Elements(s \o t) = Elements(s) \cup Elements(t)
  <2>1. ASSUME NEW x \in Elements(s \o t) PROVE x \in Elements(s) \cup Elements(t)
    BY <1>1, <1>2 DEF Elements
  <2>2. ASSUME NEW x \in Elements(t) PROVE x \in Elements(s \o t)
    <3>1. PICK i \in 1 .. Len(t) : x = t[i]
      BY <1>1 DEF Elements
    <3>2. Len(s) + i \in DOMAIN (s \o t) /\ (s \o t)[Len(s) + i] = x
      BY <1>1, <3>1
    <3> QED BY <3>2 DEF Elements
  <2>3. ASSUME NEW x \in Elements(s) PROVE x \in Elements(s \o t)
    BY <1>1 DEF Elements
  <2> QED BY <2>1, <2>2, <2>3
<1>4. ASSUME Distinct(s), Distinct(t), Elements(s) \cap Elements(t) = {} PROVE Distinct(s \o t)
  <2> SUFFICES ASSUME NEW i \in 1 .. Len(s) + Len(t), NEW j \in 1 .. Len(s) + Len(t),
                      (s \o t)[i] = (s \o t)[j]
               PROVE  i = j
    BY <1>1 DEF Distinct
  <2>1. \A k \in 1 .. Len(s), l \in 1 .. Len(t) : s[k] # t[l]
    BY <1>1, <1>4 DEF Elements
  <2>2. CASE i \in 1 .. Len(s) /\ j \in 1 .. Len(s)
    BY <1>1, <1>4, <2>2 DEF Distinct
  <2>3. CASE i \in 1 .. Len(s) /\ j \notin 1 .. Len(s)
    BY <1>1, <1>2, <2>1, <2>3
  <2>4. CASE i \notin 1 .. Len(s) /\ j \in 1 .. Len(s)
    BY <1>1, <1>2, <2>1, <2>4
  <2>5. CASE i \notin 1 .. Len(s) /\ j \notin 1 .. Len(s)
    <3>1. PICK k \in 1 .. Len(t), l \in 1 .. Len(t) : i = Len(s) + k /\ j = Len(s) + l
      BY <1>2, <2>5
    <3>2. t[k] = t[l]
      BY <1>1, <3>1
    <3>3. k = l
      BY <1>1, <1>4, <3>2 DEF Distinct
    <3> QED BY <3>1, <3>3
  <2> QED BY <2>2, <2>3, <2>4, <2>5
<1> QED BY <1>1, <1>3, <1>4

\* A sequence without repetition is as long as the set of its elements is large.
LEMMA DistinctLen ==
  ASSUME NEW S, NEW s \in Seq(S), Distinct(s)
  PROVE  IsFiniteSet(Elements(s)) /\ Cardinality(Elements(s)) = Len(s)
<1>1. s \in Bijection(1 .. Len(s), Elements(s))
  <2>1. s \in [1 .. Len(s) -> Elements(s)]
    BY DEF Elements
  <2>2. s \in Injection(1 .. Len(s), Elements(s))
    BY <2>1 DEF Injection, IsInjective, Distinct
  <2>3. s \in Surjection(1 .. Len(s), Elements(s))
    BY <2>1 DEF Surjection, Elements
  <2> QED BY <2>2, <2>3 DEF Bijection
<1>2. ExistsBijection(1 .. Len(s), Elements(s))
  BY <1>1, Zenon DEF ExistsBijection
<1>4. Len(s) \in Nat
  OBVIOUS
<1>3. IsFiniteSet(1 .. Len(s)) /\ Cardinality(1 .. Len(s)) = Len(s)
  BY <1>4, FS_Interval
<1> QED BY <1>2, <1>3, FS_Bijection

----------------------------------------------------------------------------
(* The operations of the ring                                              *)

LEMMA EmptyRingFacts ==
  ASSUME NEW R
  PROVE  EmptyRing \in Rings(R) /\ OnePlace(EmptyRing) /\ Requests(EmptyRing) = {}
  BY DEF EmptyRing, Rings, OnePlace, Requests, Prepared, Completed, Elements, Distinct

LEMMA PrepFacts ==
  ASSUME NEW R, NEW ring \in Rings(R), NEW r \in R
  PROVE  /\ Prep(ring, r) \in Rings(R)
         /\ Prepared(Prep(ring, r)) = Prepared(ring) \cup {r}
         /\ Prep(ring, r).flight = ring.flight /\ Prep(ring, r).cq = ring.cq
         /\ Requests(Prep(ring, r)) = Requests(ring) \cup {r}
         /\ OnePlace(ring) /\ r \notin Requests(ring) => OnePlace(Prep(ring, r))
<1>0. ring.sq \in Seq(R) /\ Append(ring.sq, r) \in Seq(R)
  BY DEF Rings
<1>1. /\ Prep(ring, r).sq = Append(ring.sq, r) /\ Prep(ring, r).flight = ring.flight
      /\ Prep(ring, r).cq = ring.cq /\ Prep(ring, r) \in Rings(R)
  BY <1>0 DEF Prep, Rings
<1>2. ring.sq \in Seq(R)
  BY <1>0
<1>3. Prepared(Prep(ring, r)) = Prepared(ring) \cup {r}
  BY <1>1, <1>2, AppendElements DEF Prepared
<1>4. Completed(Prep(ring, r)) = Completed(ring)
  BY <1>1 DEF Completed
<1>5. Requests(Prep(ring, r)) = Requests(ring) \cup {r}
  BY <1>1, <1>3, <1>4 DEF Requests
<1>6. OnePlace(ring) /\ r \notin Requests(ring) => OnePlace(Prep(ring, r))
  <2>1. OnePlace(ring) /\ r \notin Requests(ring) => Distinct(Prep(ring, r).sq)
    BY <1>1, <1>2, AppendElements DEF OnePlace, Requests, Prepared
  <2> QED BY <1>1, <1>3, <1>4, <2>1 DEF OnePlace, Requests
<1> QED BY <1>1, <1>3, <1>5, <1>6

LEMMA SubmitFacts ==
  ASSUME NEW R, NEW ring \in Rings(R)
  PROVE  /\ Submit(ring) \in Rings(R)
         /\ Submit(ring).sq = << >> /\ Submit(ring).cq = ring.cq
         /\ Submit(ring).flight = ring.flight \cup Prepared(ring)
         /\ Requests(Submit(ring)) = Requests(ring)
         /\ OnePlace(ring) => OnePlace(Submit(ring))
<1>1. /\ Submit(ring).sq = << >> /\ Submit(ring).cq = ring.cq
      /\ Submit(ring).flight = ring.flight \cup Prepared(ring)
  BY DEF Submit, Rings, Prepared, Elements
<1>2. Prepared(ring) \subseteq R
  BY DEF Prepared, Elements, Rings
<1>3. Submit(ring) \in Rings(R)
  <2>1. ring.flight \cup Prepared(ring) \in SUBSET R
    BY <1>2 DEF Rings
  <2>2. << >> \in Seq(R) /\ ring.cq \in Seq(Completions(R))
    BY DEF Rings
  <2> DEFINE F == ring.flight \cup Prepared(ring)
             cleared == [ring EXCEPT !.sq = << >>]
  <2>3. Submit(ring) = [cleared EXCEPT !.flight = F]
    BY DEF Submit, Prepared, Elements
  <2>4. cleared \in Rings(R)
    BY <2>2 DEF Rings
  <2> HIDE DEF cleared
  <2> QED BY <2>1, <2>3, <2>4 DEF Rings
<1>4. Prepared(Submit(ring)) = {} /\ Completed(Submit(ring)) = Completed(ring)
  BY <1>1 DEF Prepared, Completed, Elements
<1>5. Requests(Submit(ring)) = Requests(ring)
  BY <1>1, <1>4 DEF Requests
<1>6. OnePlace(ring) => OnePlace(Submit(ring))
  <2>1. Distinct(Submit(ring).sq)
    BY <1>1 DEF Distinct
  <2> QED BY <1>1, <1>4, <2>1 DEF OnePlace
<1> QED BY <1>1, <1>3, <1>5, <1>6

LEMMA CompleteFacts ==
  ASSUME NEW R, NEW ring \in Rings(R), NEW r \in ring.flight, NEW res \in Int
  PROVE  /\ Complete(ring, r, res) \in Rings(R)
         /\ Complete(ring, r, res).sq = ring.sq
         /\ Complete(ring, r, res).flight = ring.flight \ {r}
         /\ Elements(Complete(ring, r, res).cq) =
              Elements(ring.cq) \cup {[req |-> r, res |-> res]}
         /\ Len(Complete(ring, r, res).cq) = Len(ring.cq) + 1
         /\ Requests(Complete(ring, r, res)) = Requests(ring)
         /\ OnePlace(ring) => OnePlace(Complete(ring, r, res))
<1> DEFINE c == [req |-> r, res |-> res]
           new == Complete(ring, r, res)
<1>1. /\ new.sq = ring.sq /\ new.flight = ring.flight \ {r} /\ new.cq = Append(ring.cq, c)
      /\ r \in R
  BY DEF Complete, Rings
<1>2. ring.cq \in Seq(Completions(R)) /\ c \in Completions(R)
  BY <1>1 DEF Rings, Completions
<1> HIDE DEF c, new
<1>3. Elements(new.cq) = Elements(ring.cq) \cup {c} /\ new.cq \in Seq(Completions(R))
  BY <1>1, <1>2, AppendElements
<1>4. new \in Rings(R)
  <2>1. ring.flight \ {r} \in SUBSET R
    BY DEF Rings
  <2>2. new = [ring EXCEPT !.flight = ring.flight \ {r}, !.cq = Append(ring.cq, c)]
    BY DEF new, c, Complete
  <2> QED BY <1>1, <1>3, <2>1, <2>2 DEF Rings
<1>5. Prepared(new) = Prepared(ring) /\ Completed(new) = Completed(ring) \cup {r}
  BY <1>1, <1>3 DEF Prepared, Completed, c
<1>6. Requests(new) = Requests(ring)
  BY <1>1, <1>5 DEF Requests
<1>7. ASSUME OnePlace(ring) PROVE OnePlace(new)
  <2>1. \A i \in DOMAIN ring.cq : ring.cq[i].req # r
    BY <1>7 DEF OnePlace, Completed, Elements
  <2>2. /\ DOMAIN ring.cq = 1 .. Len(ring.cq) /\ DOMAIN new.cq = 1 .. Len(ring.cq) + 1
        /\ Len(ring.cq) \in Nat
        /\ \A i \in 1 .. Len(ring.cq) : new.cq[i] = ring.cq[i]
        /\ new.cq[Len(ring.cq) + 1] = c
    BY <1>1, <1>2, AppendAt
  <2>3. \A i, j \in DOMAIN new.cq : new.cq[i].req = new.cq[j].req => i = j
    <3> SUFFICES ASSUME NEW i \in 1 .. Len(ring.cq) + 1, NEW j \in 1 .. Len(ring.cq) + 1,
                        new.cq[i].req = new.cq[j].req
                 PROVE  i = j
      BY <2>2
    <3>1. c.req = r
      BY DEF c
    <3>2. CASE i = Len(ring.cq) + 1 /\ j # Len(ring.cq) + 1
      <4>1. j \in 1 .. Len(ring.cq) /\ ring.cq[j].req = r
        BY <2>2, <3>1, <3>2
      <4> QED BY <2>1, <2>2, <4>1
    <3>4. CASE j = Len(ring.cq) + 1 /\ i # Len(ring.cq) + 1
      <4>1. i \in 1 .. Len(ring.cq) /\ ring.cq[i].req = r
        BY <2>2, <3>1, <3>4
      <4> QED BY <2>1, <2>2, <4>1
    <3>3. CASE i \in 1 .. Len(ring.cq) /\ j \in 1 .. Len(ring.cq)
      <4>1. ring.cq[i].req = ring.cq[j].req
        BY <2>2, <3>3
      <4> QED BY <1>7, <2>2, <3>3, <4>1 DEF OnePlace
    <3> QED BY <2>2, <3>2, <3>3, <3>4
  <2> QED BY <1>1, <1>5, <1>7, <2>3 DEF OnePlace
<1>8. Len(new.cq) = Len(ring.cq) + 1
  BY <1>1, <1>2, AppendAt
<1> QED BY <1>1, <1>3, <1>4, <1>6, <1>7, <1>8 DEF new, c

LEMMA CqeSeenFacts ==
  ASSUME NEW R, NEW ring \in Rings(R), ring.cq # << >>
  PROVE  /\ CqeSeen(ring) \in Rings(R)
         /\ CqeSeen(ring).sq = ring.sq /\ CqeSeen(ring).flight = ring.flight
         /\ Head(ring.cq) \in Elements(ring.cq)
         /\ Head(ring.cq).req \in R /\ Head(ring.cq).res \in Int
         /\ Head(ring.cq).req \in Completed(ring)
         /\ Elements(CqeSeen(ring).cq) \subseteq Elements(ring.cq)
         /\ Len(CqeSeen(ring).cq) = Len(ring.cq) - 1
         /\ OnePlace(ring) =>
              /\ OnePlace(CqeSeen(ring))
              /\ Head(ring.cq).req \notin Requests(CqeSeen(ring))
              /\ Requests(CqeSeen(ring)) = Requests(ring) \ {Head(ring.cq).req}
<1> DEFINE c == Head(ring.cq)
           new == CqeSeen(ring)
<1>1. new.sq = ring.sq /\ new.flight = ring.flight /\ new.cq = Tail(ring.cq)
  BY DEF CqeSeen, Rings
<1>2. ring.cq \in Seq(Completions(R))
  BY DEF Rings
<1> HIDE DEF new
<1>3. /\ new.cq \in Seq(Completions(R)) /\ c \in Completions(R)
      /\ Elements(ring.cq) = Elements(new.cq) \cup {c}
      /\ Len(new.cq) = Len(ring.cq) - 1
  BY <1>1, <1>2, TailElements, TailAt
<1>4. new \in Rings(R)
  BY <1>1, <1>3 DEF CqeSeen, Rings, new
<1>5. Prepared(new) = Prepared(ring) /\ Completed(ring) = Completed(new) \cup {c.req}
  BY <1>1, <1>3 DEF Prepared, Completed
<1>6. ASSUME OnePlace(ring)
      PROVE  /\ OnePlace(new) /\ c.req \notin Requests(new)
             /\ Requests(new) = Requests(ring) \ {c.req}
  <2>1. /\ DOMAIN ring.cq = 1 .. Len(ring.cq) /\ DOMAIN new.cq = 1 .. Len(ring.cq) - 1
        /\ Len(ring.cq) \in Nat \ {0}
        /\ \A i \in 1 .. Len(ring.cq) - 1 : new.cq[i] = ring.cq[i + 1]
        /\ c = ring.cq[1]
    BY <1>1, <1>2, TailAt
  <2>2. \A i, j \in DOMAIN new.cq : new.cq[i].req = new.cq[j].req => i = j
    <3> SUFFICES ASSUME NEW i \in 1 .. Len(ring.cq) - 1, NEW j \in 1 .. Len(ring.cq) - 1,
                        new.cq[i].req = new.cq[j].req
                 PROVE  i = j
      BY <2>1
    <3>1. ring.cq[i + 1].req = ring.cq[j + 1].req /\ i + 1 \in 1 .. Len(ring.cq) /\ j + 1 \in 1 .. Len(ring.cq)
      BY <2>1
    <3>2. i + 1 = j + 1
      BY <1>6, <2>1, <3>1 DEF OnePlace
    <3> QED BY <3>2
  <2>3. c.req \notin Completed(new)
    <3> SUFFICES ASSUME NEW i \in 1 .. Len(ring.cq) - 1, new.cq[i].req = c.req
                 PROVE  FALSE
      BY <2>1 DEF Completed, Elements
    <3>1. ring.cq[i + 1].req = ring.cq[1].req /\ i + 1 \in 1 .. Len(ring.cq) /\ 1 \in 1 .. Len(ring.cq)
      BY <2>1
    <3>2. i + 1 = 1
      BY <1>6, <2>1, <3>1 DEF OnePlace
    <3> QED BY <3>2
  <2>4. OnePlace(new)
    BY <1>1, <1>5, <1>6, <2>2 DEF OnePlace
  <2>5. c.req \notin Requests(new)
    BY <1>1, <1>5, <1>6, <2>3 DEF OnePlace, Requests
  <2> QED BY <1>1, <1>5, <2>4, <2>5 DEF Requests
<1>7. c.req \in R /\ c.res \in Int
  BY <1>3 DEF Completions
<1> QED BY <1>1, <1>3, <1>4, <1>5, <1>6, <1>7 DEF new

\* Marking a completion seen and preparing a request do not interfere.
LEMMA SeenCommutes ==
  ASSUME NEW R, NEW ring \in Rings(R), NEW r
  PROVE  /\ CqeSeen(Prep(ring, r)) = Prep(CqeSeen(ring), r)
         /\ CqeSeen(Submit(ring)) = Submit(CqeSeen(ring))
  BY DEF CqeSeen, Prep, Submit, Rings

----------------------------------------------------------------------------
(* Counting the requests in the ring                                       *)

Load(ring) == Len(ring.sq) + Cardinality(ring.flight) + Len(ring.cq)

LEMMA LoadType ==
  ASSUME NEW R, IsFiniteSet(R), NEW ring \in Rings(R)
  PROVE  /\ IsFiniteSet(ring.flight) /\ Cardinality(ring.flight) \in Nat
         /\ Len(ring.sq) \in Nat /\ Len(ring.cq) \in Nat
<1>1. ring.flight \in SUBSET R /\ ring.sq \in Seq(R) /\ ring.cq \in Seq(Completions(R))
  BY DEF Rings
<1>2. IsFiniteSet(ring.flight)
  BY <1>1, FS_Subset
<1>3. Len(ring.sq) \in Nat /\ Len(ring.cq) \in Nat
  BY <1>1, LenProperties
<1> QED BY <1>2, <1>3, FS_CardinalityType

\* Only a request that is prepared or a completion that is seen changes the load.
LEMMA PrepLoad ==
  ASSUME NEW R, IsFiniteSet(R), NEW ring \in Rings(R), NEW r \in R
  PROVE  Load(Prep(ring, r)) = Load(ring) + 1
<1>1. Prep(ring, r).sq = Append(ring.sq, r) /\ ring.sq \in Seq(R)
  BY DEF Prep, Rings
<1>2. Len(Prep(ring, r).sq) = Len(ring.sq) + 1
  BY <1>1, AppendAt
<1> QED BY <1>2, PrepFacts, LoadType DEF Load

LEMMA SubmitLoad ==
  ASSUME NEW R, IsFiniteSet(R), NEW ring \in Rings(R), OnePlace(ring)
  PROVE  Load(Submit(ring)) = Load(ring)
<1>1. IsFiniteSet(Prepared(ring)) /\ Cardinality(Prepared(ring)) = Len(ring.sq)
  BY DistinctLen DEF Rings, OnePlace, Prepared
<1>2. ring.flight \cap Prepared(ring) = {}
  BY DEF OnePlace
<1>3. Cardinality(Submit(ring).flight) = Cardinality(ring.flight) + Len(ring.sq)
  <2>1. Submit(ring).flight = ring.flight \cup Prepared(ring)
    BY SubmitFacts
  <2>2. IsFiniteSet(ring.flight) /\ Cardinality(ring.flight) \in Nat /\ Len(ring.sq) \in Nat
    BY LoadType
  <2>3. Cardinality(ring.flight \cup Prepared(ring))
          = Cardinality(ring.flight) + Cardinality(Prepared(ring)) - Cardinality({})
    BY <1>1, <1>2, <2>2, FS_Union
  <2> QED BY <1>1, <2>1, <2>2, <2>3, FS_EmptySet
<1>4. Len(Submit(ring).sq) = 0 /\ Submit(ring).cq = ring.cq
  BY SubmitFacts
<1> QED BY <1>3, <1>4, LoadType DEF Load

LEMMA CompleteLoad ==
  ASSUME NEW R, IsFiniteSet(R), NEW ring \in Rings(R), NEW r \in ring.flight, NEW res \in Int
  PROVE  Load(Complete(ring, r, res)) = Load(ring)
<1> DEFINE new == Complete(ring, r, res)
<1>1. Cardinality(new.flight) = Cardinality(ring.flight) - 1
  <2>1. new.flight = ring.flight \ {r}
    BY CompleteFacts
  <2>2. IsFiniteSet(ring.flight)
    BY LoadType
  <2> QED BY <2>1, <2>2, FS_RemoveElement
<1>2. Len(new.cq) = Len(ring.cq) + 1 /\ new.sq = ring.sq
  BY CompleteFacts
<1>3. Cardinality(ring.flight) \in Nat /\ Len(ring.sq) \in Nat /\ Len(ring.cq) \in Nat
  BY LoadType
<1> HIDE DEF new
<1>4. Load(new) = Load(ring)
  <2>1. Load(new) = Len(ring.sq) + (Cardinality(ring.flight) - 1) + (Len(ring.cq) + 1)
    BY <1>1, <1>2, Zenon DEF Load
  <2>2. \A a, b, c \in Nat : a + (b - 1) + (c + 1) = a + b + c
    OBVIOUS
  <2> QED BY <1>3, <2>1, <2>2, Zenon DEF Load
<1> QED BY <1>4 DEF new

LEMMA CqeSeenLoad ==
  ASSUME NEW R, IsFiniteSet(R), NEW ring \in Rings(R), ring.cq # << >>
  PROVE  Load(CqeSeen(ring)) = Load(ring) - 1
<1>1. /\ Len(CqeSeen(ring).cq) = Len(ring.cq) - 1 /\ CqeSeen(ring).sq = ring.sq
      /\ CqeSeen(ring).flight = ring.flight
  BY CqeSeenFacts
<1>2. Cardinality(ring.flight) \in Nat /\ Len(ring.sq) \in Nat /\ Len(ring.cq) \in Nat
  BY LoadType
<1> QED BY <1>1, <1>2 DEF Load
=============================================================================
