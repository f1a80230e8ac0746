----------------------------- MODULE PconProofs -----------------------------
(***************************************************************************)
(* The connection limiter, for any number of threads and nodes, any bounds *)
(* on the clocks, and with allocations that fail.                          *)
(***************************************************************************)
EXTENDS Pcon, SequenceTheorems, FiniteSetTheorems, TLAPS

Busy == {"search", "found", "absent"}

\* Who uses the table holds the lock.
Locked == \A t \in Thread : pc[t] \in Busy => lock = t

Asked == \A t \in Thread : pc[t] # "idle" => req[t] \in Host

\* The order that the bisection relies on.
Ascending ==
  \A i, j \in 1..Len(ipas) : i < j => ipas[i].host < ipas[j].host

\* What is left of the interval is below h, what is right of it is above.
Around(t) ==
  /\ l[t] <= u[t] /\ u[t] <= Len(ipas)
  /\ \A i \in 1..Len(ipas) : /\ i <= l[t] => ipas[i].host < req[t]
                             /\ i > u[t] => ipas[i].host > req[t]

Searching ==
  \A t \in Thread :
    /\ pc[t] \in {"search", "absent"} => Around(t)
    /\ pc[t] = "absent" => l[t] = u[t]
    /\ pc[t] = "found" => /\ Middle(t) + 1 \in 1..Len(ipas)
                          /\ ipas[Middle(t) + 1].host = req[t]

\* How far the clock is behind.
Behind == now <= Elapsed /\ Elapsed - now <= MaxBack

\* An entry is as old as the last attempt, or the clock was set back since.
Dated ==
  \A i \in 1..Len(ipas) :
    ipas[i].host \in Host =>
      last[ipas[i].host].at - ipas[i].ts <= Elapsed - now

\* Without a failed allocation a host that was tried is in the table.
Stored ==
  "nomem" \notin Faults => \A h \in Host : last[h].n > 0 => InTable(h)

IInv ==
  /\ TypeOK /\ Locked /\ Asked /\ Ascending
  /\ Searching /\ Behind /\ Dated /\ Stored

-----------------------------------------------------------------------------
\* A reported address is a number.
LEMMA PackType == \A h \in Nat : Pack(h) \in Nat
<1> TAKE h \in Nat
<1> DEFINE mac == h \div (BYTE * BYTE)
           hi == (h \div BYTE) % BYTE
           lo == h % BYTE
<1>1. BYTE \in Nat \ {0} /\ BYTE * BYTE \in Nat \ {0}
  BY NodeAssumption
<1>2. mac \in Nat
  <2> DEFINE sq == BYTE * BYTE
  <2>1. sq \in Nat \ {0}
    BY <1>1
  <2> HIDE DEF sq
  <2>2. h \div sq \in Nat
    BY <2>1
  <2> QED
    BY <2>2 DEF sq
<1>3. h \div BYTE \in Nat /\ lo \in Nat
  BY <1>1
<1>4. hi \in Nat
  <2> DEFINE q == h \div BYTE
  <2>1. q \in Nat
    BY <1>3
  <2> HIDE DEF q
  <2>2. q % BYTE \in Nat
    BY <2>1, <1>1
  <2> QED
    BY <2>2 DEF q
<1> HIDE DEF mac, hi, lo
<1>5. (mac * BYTE + lo) * BYTE + hi \in Nat
  BY <1>1, <1>2, <1>3, <1>4
<1> QED
  BY <1>5 DEF Pack, mac, hi, lo

\* Division with remainder finds the digit that was put last.
LEMMA LastDigit ==
  ASSUME NEW b \in Nat \ {0}, NEW q \in Nat, NEW r \in Nat, r < b
  PROVE  (q * b + r) \div b = q /\ (q * b + r) % b = r
<1> DEFINE x == q * b + r
           d == x \div b
           e == x % b
<1>1. x \in Nat /\ x = q * b + r
  OBVIOUS
<1>2. d \in Nat /\ e \in Nat /\ e < b /\ x = d * b + e
  <2> HIDE DEF x
  <2> QED
    BY <1>1
<1> HIDE DEF x, d, e
<1>3. ~(d < q)
  <2> SUFFICES ASSUME d < q PROVE FALSE
    OBVIOUS
  <2>1. q * b >= (d + 1) * b
    BY <1>2
  <2>2. (d + 1) * b = d * b + b
    BY <1>2
  <2> QED
    BY <1>1, <1>2, <2>1, <2>2
<1>4. ~(q < d)
  <2> SUFFICES ASSUME q < d PROVE FALSE
    OBVIOUS
  <2>1. d * b >= (q + 1) * b
    BY <1>2
  <2>2. (q + 1) * b = q * b + b
    OBVIOUS
  <2> QED
    BY <1>1, <1>2, <2>1, <2>2
<1>5. d = q
  BY <1>2, <1>3, <1>4
<1>6. e = r
  BY <1>1, <1>2, <1>5
<1> QED
  BY <1>5, <1>6 DEF x, d, e

\* A number is its digits.
LEMMA Digits ==
  ASSUME NEW b \in Nat \ {0}, NEW h \in Nat
  PROVE  \E m, i, k \in Nat : i < b /\ k < b /\ h = (m * b + i) * b + k
<1> DEFINE d == h \div b
           k == h % b
           m == d \div b
           i == d % b
<1>1. d \in Nat /\ k \in Nat /\ k < b /\ h = d * b + k
  OBVIOUS
<1> HIDE DEF d, k
<1>2. m \in Nat /\ i \in Nat /\ i < b /\ d = m * b + i
  BY <1>1
<1> HIDE DEF m, i
<1>3. h = (m * b + i) * b + k
  BY <1>1, <1>2
<1> QED
  BY <1>1, <1>2, <1>3

LEMMA PackDigits ==
  ASSUME NEW m \in Nat, NEW i \in Nat, NEW k \in Nat, i < BYTE, k < BYTE
  PROVE  Pack((m * BYTE + i) * BYTE + k) = (m * BYTE + k) * BYTE + i
<1> DEFINE h == (m * BYTE + i) * BYTE + k
           d == m * BYTE + i
           sq == BYTE * BYTE
           r == i * BYTE + k
<1>1. BYTE \in Nat \ {0}
  BY NodeAssumption
<1>2. d \in Nat /\ d \div BYTE = m /\ d % BYTE = i
  BY <1>1, LastDigit
<1>3. h \div BYTE = d /\ h % BYTE = k
  <2> HIDE DEF d
  <2>1. (d * BYTE + k) \div BYTE = d /\ (d * BYTE + k) % BYTE = k
    BY <1>1, <1>2, LastDigit
  <2> QED
    BY <2>1 DEF d
<1>4. h \div sq = m
  <2>1. sq \in Nat \ {0}
    BY <1>1
  <2>2. h = m * sq + r
    BY <1>1
  <2>3. r \in Nat /\ r < sq
    <3>1. i * BYTE <= (BYTE - 1) * BYTE /\ (BYTE - 1) * BYTE = sq - BYTE
      BY <1>1
    <3> QED
      BY <1>1, <2>1, <3>1
  <2> HIDE DEF sq, r, h
  <2>4. (m * sq + r) \div sq = m
    BY <2>1, <2>3, LastDigit
  <2> QED
    BY <2>2, <2>4
<1>5. Pack(h) = ((h \div sq) * BYTE + (h % BYTE)) * BYTE
                  + ((h \div BYTE) % BYTE)
  BY DEF Pack
<1> HIDE DEF h, d, sq
<1>6. Pack(h) = (m * BYTE + k) * BYTE + i
  BY <1>2, <1>3, <1>4, <1>5
<1> QED
  BY <1>6 DEF h

(***************************************************************************)
(* pkt_ipv4_pack applied twice gives the address again, for every address  *)
(* and base: a node is known under two addresses at most, however many     *)
(* nodes have passed a link graph on, which is why Reported needs no more. *)
(***************************************************************************)
THEOREM PackTwice == \A h \in Nat : Pack(Pack(h)) = h
<1> TAKE h \in Nat
<1>1. BYTE \in Nat \ {0}
  BY NodeAssumption
<1>2. PICK m, i, k \in Nat : i < BYTE /\ k < BYTE /\ h = (m * BYTE + i) * BYTE + k
  BY <1>1, Digits
<1>3. Pack(h) = (m * BYTE + k) * BYTE + i
  BY <1>2, PackDigits
<1>4. Pack((m * BYTE + k) * BYTE + i) = (m * BYTE + i) * BYTE + k
  BY <1>2, PackDigits
<1> QED
  BY <1>2, <1>3, <1>4

LEMMA HostType == Host \subseteq Nat
  BY PackType, NodeAssumption DEF Host, Reported, Unpack

\* qsort puts a new entry into its place and keeps the others.
LEMMA SortedPlace ==
  ASSUME NEW s \in Seq(Entry), NEW e \in Entry,
         NEW m \in 0..Len(s),
         \A i \in 1..Len(s) : /\ i <= m => s[i].host < e.host
                              /\ i > m => s[i].host > e.host
  PROVE  Sorted(s, e) = [i \in 1..(Len(s) + 1) |->
           IF i < m + 1 THEN s[i] ELSE IF i = m + 1 THEN e ELSE s[i - 1]]
<1> DEFINE P(n) == /\ \A i \in 1..(n - 1) : s[i].host <= e.host
                   /\ \A i \in n..Len(s) : s[i].host > e.host
           c == CHOOSE n \in 1..(Len(s) + 1) : P(n)
<1>1. Len(s) \in Nat /\ \A i \in 1..Len(s) : s[i].host \in Nat
  <2>1. Len(s) \in Nat /\ \A i \in 1..Len(s) : s[i] \in Entry
    BY ElementOfSeq, LenProperties
  <2> QED
    BY <2>1 DEF Entry
<1>2. e.host \in Nat
  BY DEF Entry
<1>3. m + 1 \in 1..(Len(s) + 1) /\ P(m + 1)
  BY <1>1, <1>2
<1>4. c \in 1..(Len(s) + 1) /\ P(c)
  BY <1>3
<1>5. c = m + 1
  <2>1. CASE c < m + 1
    <3>1. c \in 1..Len(s) /\ c <= m
      BY <2>1, <1>1, <1>4
    <3>2. s[c].host < e.host /\ s[c].host > e.host
      BY <3>1, <1>4, <1>1
    <3> QED
      BY <3>1, <3>2, <1>1, <1>2
  <2>2. CASE c > m + 1
    <3>1. m + 1 \in 1..Len(s) /\ m + 1 \in 1..(c - 1)
      BY <2>2, <1>1, <1>4
    <3>2. s[m + 1].host > e.host /\ s[m + 1].host <= e.host
      BY <3>1, <1>4, <1>1
    <3> QED
      BY <3>1, <3>2, <1>1, <1>2
  <2> QED
    BY <2>1, <2>2, <1>1, <1>4
<1> QED
  BY <1>5 DEF Sorted

LEMMA SortedInserts ==
  ASSUME NEW s \in Seq(Entry), NEW e \in Entry,
         NEW m \in 0..Len(s),
         \A i \in 1..Len(s) : /\ i <= m => s[i].host < e.host
                              /\ i > m => s[i].host > e.host
  PROVE  /\ Sorted(s, e) \in Seq(Entry)
         /\ Len(Sorted(s, e)) = Len(s) + 1
         /\ \A i \in 1..m : Sorted(s, e)[i] = s[i]
         /\ Sorted(s, e)[m + 1] = e
         /\ \A i \in (m + 1)..Len(s) : Sorted(s, e)[i + 1] = s[i]
<1> DEFINE r == [i \in 1..(Len(s) + 1) |->
             IF i < m + 1 THEN s[i] ELSE IF i = m + 1 THEN e ELSE s[i - 1]]
<1>1. Len(s) \in Nat /\ \A i \in 1..Len(s) : s[i] \in Entry
  BY ElementOfSeq, LenProperties
<1>2. \A i \in 1..(Len(s) + 1) : r[i] \in Entry
  BY <1>1
<1>3. r \in [1..(Len(s) + 1) -> Entry]
  BY <1>2
<1>4. Len(s) + 1 \in Nat
  BY <1>1
<1>5. r \in Seq(Entry)
  BY <1>3, <1>4, SeqDef
<1>6. DOMAIN r = 1..Len(r) /\ Len(r) \in Nat
  BY <1>5, LenProperties
<1>7. Len(r) = Len(s) + 1
  <2>1. 1..Len(r) = 1..(Len(s) + 1)
    BY <1>3, <1>6
  <2> QED
    BY <2>1, <1>6, <1>4
<1>8. /\ \A i \in 1..m : r[i] = s[i]
      /\ r[m + 1] = e
      /\ \A i \in (m + 1)..Len(s) : r[i + 1] = s[i]
  BY <1>1
<1>9. Sorted(s, e) = r
  BY SortedPlace
<1> HIDE DEF r
<1> QED
  BY <1>5, <1>7, <1>8, <1>9

-----------------------------------------------------------------------------
\* The table as a function, which is how the proofs below use it.
LEMMA TableType ==
  ASSUME TypeOK
  PROVE  /\ Len(ipas) \in Nat
         /\ DOMAIN ipas = 1..Len(ipas)
         /\ \A i \in 1..Len(ipas) : ipas[i].host \in Nat /\ ipas[i].ts \in Int
<1>1. ipas \in Seq(Entry)
  BY DEF TypeOK
<1>2. Len(ipas) \in Nat /\ DOMAIN ipas = 1..Len(ipas)
  BY <1>1, LenProperties
<1>3. \A i \in 1..Len(ipas) : ipas[i] \in Entry
  BY <1>1, ElementOfSeq
<1> QED
  BY <1>2, <1>3, EaseAssumption DEF Entry, Clock

LEMMA ClocksAreNumbers ==
  ASSUME TypeOK
  PROVE  /\ Elapsed \in Int /\ now \in Int
         /\ \A h \in Host : last[h].at \in Int
  BY EaseAssumption DEF TypeOK, Time, Clock, Elapsed

LEMMA InitHolds == Init => IInv
<1> SUFFICES ASSUME Init PROVE IInv
  OBVIOUS
<1>1. ipas \in Seq(Entry) /\ Len(ipas) = 0
  BY EmptySeq DEF Init
<1>2. TypeOK
  BY <1>1, EaseAssumption, SizeAssumption DEF Init, TypeOK, Clock, Time, Nought
<1>3. Locked /\ Asked /\ Ascending /\ Searching /\ Behind /\ Dated
  BY <1>1, EaseAssumption
  DEF Init, Locked, Asked, Ascending, Searching, Behind, Dated, Elapsed, Busy
<1>4. Stored
  BY DEF Init, Stored, Nought
<1> QED
  BY <1>2, <1>3, <1>4 DEF IInv

\* The steps of the bisection.
LEMMA MiddleInside ==
  ASSUME NEW a \in Nat, NEW b \in Nat, a < b
  PROVE  /\ (a + b) \div 2 \in Nat
         /\ a <= (a + b) \div 2 /\ (a + b) \div 2 < b
  OBVIOUS

LEMMA LockStep ==
  ASSUME IInv, NEW t \in Thread, NEW h \in Host, Lock(t, h)
  PROVE  IInv'
<1> USE DEF Lock, Goto
<1>1. Len(ipas) \in Nat
  BY TableType DEF IInv
<1>2. TypeOK'
  BY <1>1, HostType DEF IInv, TypeOK
<1>3. Locked'
  BY NobodyAssumption DEF IInv, Locked, TypeOK, Busy
<1>4. Asked'
  BY DEF IInv, Asked, TypeOK
<1>5. Searching'
  BY <1>1, NobodyAssumption
  DEF IInv, Searching, Around, Middle, TypeOK, Locked, Busy
<1>6. Ascending' /\ Behind' /\ Dated' /\ Stored'
  BY DEF IInv, Ascending, Behind, Dated, Elapsed, Stored, InTable
<1> QED
  BY <1>2, <1>3, <1>4, <1>5, <1>6 DEF IInv

LEMMA SearchStep ==
  ASSUME IInv, NEW t \in Thread, Search(t)
  PROVE  IInv'
<1> USE DEF Search, Goto
<1>1. /\ l[t] \in Nat /\ u[t] \in Nat /\ req[t] \in Nat
      /\ Around(t)
  BY DEF IInv, TypeOK, Searching
<1>2. Middle(t) \in Nat /\ l[t] <= Middle(t) /\ Middle(t) < u[t]
  BY <1>1, MiddleInside DEF Middle
<1>3. Len(ipas) \in Nat /\ \A i \in 1..Len(ipas) : ipas[i].host \in Nat
  BY TableType DEF IInv
<1>4. Middle(t) + 1 \in 1..Len(ipas)
  BY <1>1, <1>2, <1>3 DEF Around
<1>5. TypeOK'
  <2>1. l' \in [Thread -> Nat] /\ u' \in [Thread -> Nat]
    <3>1. l \in [Thread -> Nat] /\ u \in [Thread -> Nat]
      BY DEF IInv, TypeOK
    <3>2. /\ l' = l \/ l' = [l EXCEPT ![t] = Middle(t) + 1]
          /\ u' = u \/ u' = [u EXCEPT ![t] = Middle(t)]
      BY DEF Bisect
    <3>3. Middle(t) + 1 \in Nat
      BY <1>2
    <3> QED
      BY <3>1, <3>2, <3>3, <1>2
  <2>2. pc' = pc \/ pc' = [pc EXCEPT ![t] = "found"]
    BY DEF Bisect
  <2> QED
    BY <2>1, <2>2 DEF IInv, TypeOK
<1>6. Locked' /\ Asked'
  BY DEF IInv, Locked, Asked, TypeOK, Bisect, Busy
<1>7. Ascending' /\ Behind' /\ Dated' /\ Stored'
  BY DEF IInv, Ascending, Behind, Dated, Elapsed, Stored, InTable
<1>8. Searching'
  <2>1. \A s \in Thread \ {t} : pc'[s] = pc[s] /\ pc[s] \notin Busy
    BY DEF IInv, Locked, TypeOK, Bisect, Busy
  <2>2. CASE req[t] < ipas[Middle(t) + 1].host
    <3>1. /\ u' = [u EXCEPT ![t] = Middle(t)] /\ l' = l /\ pc' = pc
      BY <2>2, <1>1, <1>3, <1>4 DEF Bisect
    <3>2. \A i \in 1..Len(ipas) : i > Middle(t) => ipas[i].host > req[t]
      BY <2>2, <1>1, <1>2, <1>3, <1>4 DEF IInv, Ascending
    <3>3. Around(t)'
      BY <3>1, <3>2, <1>1, <1>2, <1>3 DEF Around, IInv, TypeOK
    <3> QED
      BY <3>1, <3>3, <2>1 DEF Searching, Busy
  <2>3. CASE req[t] > ipas[Middle(t) + 1].host
    <3>1. /\ l' = [l EXCEPT ![t] = Middle(t) + 1] /\ u' = u /\ pc' = pc
      BY <2>3, <1>1, <1>3, <1>4 DEF Bisect
    <3>2. \A i \in 1..Len(ipas) : i <= Middle(t) + 1 => ipas[i].host < req[t]
      BY <2>3, <1>1, <1>2, <1>3, <1>4 DEF IInv, Ascending
    <3>3. Around(t)'
      BY <3>1, <3>2, <1>1, <1>2, <1>3 DEF Around, IInv, TypeOK
    <3> QED
      BY <3>1, <3>3, <2>1 DEF Searching, Busy
  <2>4. CASE req[t] = ipas[Middle(t) + 1].host
    <3>1. /\ pc' = [pc EXCEPT ![t] = "found"] /\ l' = l /\ u' = u
      BY <2>4, <1>1, <1>3, <1>4 DEF Bisect
    <3>2. Middle(t)' = Middle(t)
      BY <3>1 DEF Middle
    <3>3. pc'[t] = "found"
      BY <3>1 DEF IInv, TypeOK
    <3> QED
      BY <3>2, <3>3, <2>1, <2>4, <1>4 DEF Searching, Busy
  <2> QED
    BY <2>2, <2>3, <2>4, <1>1, <1>3, <1>4
<1> QED
  BY <1>5, <1>6, <1>7, <1>8 DEF IInv

LEMMA SearchEndsStep ==
  ASSUME IInv, NEW t \in Thread, SearchEnds(t)
  PROVE  IInv'
<1> USE DEF SearchEnds, Goto
<1>1. TypeOK' /\ Locked' /\ Asked'
  BY DEF IInv, TypeOK, Locked, Asked, Busy
<1>2. Ascending' /\ Behind' /\ Dated' /\ Stored'
  BY DEF IInv, Ascending, Behind, Dated, Elapsed, Stored, InTable
<1>3. Len(ipas) \in Nat
  BY TableType DEF IInv
<1>4. Searching'
  BY <1>3 DEF IInv, TypeOK, Searching, Around, Middle
<1> QED
  BY <1>1, <1>2, <1>4 DEF IInv

\* A decision to connect is dated, and concerns the host asked for.
LEMMA GrantedType ==
  ASSUME TypeOK, Asked, NEW t \in Thread, pc[t] # "idle"
  PROVE  /\ Granted(t) \in [Host -> [n : 0..2, at : Time]]
         /\ Granted(t)[req[t]].at = Elapsed
         /\ Granted(t)[req[t]].n > 0
         /\ \A h \in Host : h # req[t] => Granted(t)[h] = last[h]
  BY EaseAssumption DEF TypeOK, Asked, Granted, Elapsed, Time

LEMMA FoundStep ==
  ASSUME IInv, NEW t \in Thread, Found(t)
  PROVE  IInv'
<1> USE DEF Found, Return, Goto
<1> DEFINE k == Middle(t) + 1
<1>1. /\ k \in 1..Len(ipas) /\ ipas[k].host = req[t]
  BY DEF IInv, Searching
<1>2. \A s \in Thread \ {t} : pc'[s] = pc[s] /\ pc[s] \notin Busy
  BY DEF IInv, Locked, TypeOK, Busy
<1>3. pc'[t] \in {"idle", "create"}
  BY DEF IInv, TypeOK
<1>4. Locked' /\ Searching' /\ Behind'
  BY <1>2, <1>3 DEF IInv, Locked, Searching, Behind, Elapsed, Busy
<1>5. CASE TooRecent(now - ipas[k].ts)
  <2>1. ipas' = ipas /\ last' = last
    BY <1>5
  <2>2. TypeOK'
    <3>1. /\ pc' = [pc EXCEPT ![t] = "idle"]
          /\ req' = [req EXCEPT ![t] = 0]
          /\ l' = [l EXCEPT ![t] = 0]
          /\ u' = [u EXCEPT ![t] = 0]
          /\ lock' = Nobody /\ UNCHANGED <<now, time, ahead, mem>>
      BY <1>5
    <3> HIDE DEF Found, Return, Goto
    <3> QED
      BY <2>1, <3>1 DEF IInv, TypeOK
  <2>3. Asked'
    <3>1. pc'[t] = "idle" /\ \A s \in Thread \ {t} : req'[s] = req[s]
      BY <1>5 DEF IInv, TypeOK
    <3> QED
      BY <3>1, <1>2 DEF IInv, Asked
  <2>4. Ascending' /\ Dated' /\ Stored'
    BY <2>1 DEF IInv, Ascending, Dated, Elapsed, Stored, InTable
  <2> QED
    BY <2>2, <2>3, <2>4, <1>4 DEF IInv
<1>6. CASE ~TooRecent(now - ipas[k].ts)
  <2> DEFINE e == [ipas[k] EXCEPT !.ts = now]
  <2>1. /\ ipas' = [ipas EXCEPT ![k] = e]
        /\ last' = Granted(t) /\ req' = req
        /\ pc' = [pc EXCEPT ![t] = "create"]
    BY <1>6
  <2>2. ipas \in Seq(Entry) /\ now \in Clock
    BY DEF IInv, TypeOK
  <2>3. e \in Entry /\ e.host = req[t] /\ e.ts = now
    <3>1. ipas[k] \in Entry
      BY <2>2, <1>1, ElementOfSeq
    <3> QED
      BY <3>1, <2>2, <1>1 DEF Entry
  <2> HIDE DEF e, k
  <2>4. /\ ipas' \in Seq(Entry) /\ Len(ipas') = Len(ipas)
        /\ \A j \in 1..Len(ipas) : ipas'[j] = IF j = k THEN e ELSE ipas[j]
    BY <2>1, <2>2, <2>3, <1>1, ExceptSeq
  <2>5. \A j \in 1..Len(ipas) : ipas'[j].host = ipas[j].host
    BY <2>3, <2>4, <1>1
  <2>6. pc[t] # "idle"
    OBVIOUS
  <2>7. /\ last' \in [Host -> [n : 0..2, at : Time]]
        /\ last'[req[t]].at = Elapsed
        /\ \A h \in Host : h # req[t] => last'[h] = last[h]
    BY <2>1, <2>6, GrantedType DEF IInv
  <2>8. TypeOK'
    BY <2>1, <2>4, <2>7, <1>6 DEF IInv, TypeOK
  <2>9. Asked'
    BY <2>1 DEF IInv, Asked, TypeOK
  <2>10. Ascending'
    BY <2>4, <2>5 DEF IInv, Ascending
  <2>11. Dated'
    <3> SUFFICES ASSUME NEW i \in 1..Len(ipas), ipas[i].host \in Host
                 PROVE  last'[ipas[i].host].at - ipas'[i].ts <= Elapsed - now
      BY <2>4, <2>5 DEF Dated, Elapsed
    <3>1. CASE i = k
      <4>1. last'[ipas[i].host].at = Elapsed /\ ipas'[i].ts = now
        BY <3>1, <2>3, <2>4, <2>7, <1>1
      <4> QED
        BY <4>1, ClocksAreNumbers DEF IInv
    <3>2. CASE i # k
      <4>1. ipas[i].host # ipas[k].host
        BY <3>2, <1>1, TableType DEF IInv, Ascending
      <4> QED
        BY <4>1, <3>2, <2>4, <2>7, <1>1 DEF IInv, Dated, Elapsed
    <3> QED
      BY <3>1, <3>2
  <2>12. Stored'
    <3>1. DOMAIN ipas = 1..Len(ipas) /\ DOMAIN ipas' = 1..Len(ipas)
      BY <2>4, TableType, LenProperties DEF IInv
    <3>2. \A h : InTable(h) => InTable(h)'
      BY <3>1, <2>5 DEF InTable
    <3>3. InTable(req[t])
      BY <3>1, <1>1 DEF InTable
    <3> QED
      BY <3>2, <3>3, <2>7 DEF IInv, Stored
  <2> QED
    BY <2>8, <2>9, <2>10, <2>11, <2>12, <1>4 DEF IInv
<1> QED
  BY <1>5, <1>6

LEMMA AddStep ==
  ASSUME IInv, NEW t \in Thread, Add(t)
  PROVE  IInv'
<1> USE DEF Add, Goto
<1> DEFINE e == [host |-> req[t], ts |-> now]
           m == l[t]
<1>1. /\ ipas \in Seq(Entry) /\ req[t] \in Nat /\ req[t] \in Host
      /\ now \in Clock /\ pc[t] # "idle"
  BY DEF IInv, TypeOK, Asked
<1>2. Len(ipas) \in Nat /\ \A i \in 1..Len(ipas) : ipas[i].host \in Nat
  BY TableType DEF IInv
<1>3. /\ m \in 0..Len(ipas)
      /\ \A i \in 1..Len(ipas) : /\ i <= m => ipas[i].host < req[t]
                                 /\ i > m => ipas[i].host > req[t]
  BY <1>2 DEF IInv, Searching, Around, TypeOK
<1>4. e \in Entry /\ e.host = req[t] /\ e.ts = now
  BY <1>1 DEF Entry
<1>5. ipas' = Sorted(ipas, e)
  OBVIOUS
<1> HIDE DEF e, m
<1>6. /\ ipas' \in Seq(Entry)
      /\ Len(ipas') = Len(ipas) + 1
      /\ \A i \in 1..m : ipas'[i] = ipas[i]
      /\ ipas'[m + 1] = e
      /\ \A i \in (m + 1)..Len(ipas) : ipas'[i + 1] = ipas[i]
  <2>1. \A i \in 1..Len(ipas) : /\ i <= m => ipas[i].host < e.host
                                /\ i > m => ipas[i].host > e.host
    BY <1>3, <1>4
  <2> HIDE DEF Add
  <2>2. /\ Sorted(ipas, e) \in Seq(Entry)
        /\ Len(Sorted(ipas, e)) = Len(ipas) + 1
        /\ \A i \in 1..m : Sorted(ipas, e)[i] = ipas[i]
        /\ Sorted(ipas, e)[m + 1] = e
        /\ \A i \in (m + 1)..Len(ipas) : Sorted(ipas, e)[i + 1] = ipas[i]
    BY <2>1, <1>1, <1>3, <1>4, SortedInserts
  <2> QED
    BY <2>2, <1>5
\* Every entry but the new one was there before.
<1>7. \A i \in 1..(Len(ipas) + 1) :
        /\ i < m + 1 => i \in 1..Len(ipas) /\ ipas'[i] = ipas[i]
        /\ i > m + 1 => /\ i - 1 \in (m + 1)..Len(ipas)
                        /\ i - 1 \in 1..Len(ipas)
                        /\ ipas'[i] = ipas[i - 1]
  <2> TAKE i \in 1..(Len(ipas) + 1)
  <2>1. CASE i < m + 1
    BY <2>1, <1>2, <1>3, <1>6
  <2>2. CASE i > m + 1
    <3>1. i - 1 \in (m + 1)..Len(ipas) /\ i - 1 \in 1..Len(ipas)
      BY <2>2, <1>2, <1>3
    <3>2. ipas'[(i - 1) + 1] = ipas[i - 1]
      BY <3>1, <1>6
    <3>3. (i - 1) + 1 = i
      OBVIOUS
    <3> QED
      BY <2>2, <3>1, <3>2, <3>3, <1>2, <1>3
  <2> QED
    BY <2>1, <2>2, <1>2, <1>3
<1>8. /\ last' \in [Host -> [n : 0..2, at : Time]]
      /\ last'[req[t]].at = Elapsed
      /\ \A h \in Host : h # req[t] => last'[h] = last[h]
  BY <1>1, GrantedType DEF IInv
<1>9. TypeOK'
  <2>1. mem' \in Nat
    BY DEF IInv, TypeOK, Grown
  <2> QED
    BY <2>1, <1>6, <1>8 DEF IInv, TypeOK
<1>10. \A s \in Thread \ {t} : pc'[s] = pc[s] /\ pc[s] \notin Busy
  BY DEF IInv, Locked, TypeOK, Busy
<1>11. pc'[t] = "create"
  BY DEF IInv, TypeOK
<1>12. Locked' /\ Searching' /\ Behind' /\ Asked'
  BY <1>10, <1>11, <1>1 DEF IInv, Locked, Searching, Behind, Elapsed, Busy, Asked
<1>13. Ascending'
  <2> SUFFICES ASSUME NEW i \in 1..(Len(ipas) + 1),
                      NEW j \in 1..(Len(ipas) + 1), i < j
               PROVE  ipas'[i].host < ipas'[j].host
    BY <1>6 DEF Ascending
  <2>1. \A a, b \in 1..Len(ipas) : a < b => ipas[a].host < ipas[b].host
    BY DEF IInv, Ascending
  <2> HIDE DEF Add
  <2>2. CASE j < m + 1
    <3>1. i < m + 1
      BY <2>2, <1>2, <1>3
    <3> QED
      BY <2>1, <2>2, <3>1, <1>7
  <2>3. CASE j = m + 1
    <3>1. i < m + 1 /\ i <= m
      BY <2>3, <1>2, <1>3
    <3> QED
      BY <2>3, <3>1, <1>3, <1>4, <1>6, <1>7
  <2>4. CASE j > m + 1
    <3>1. ipas'[j] = ipas[j - 1] /\ j - 1 \in 1..Len(ipas) /\ j - 1 > m
      BY <2>4, <1>2, <1>3, <1>7
    <3>2. CASE i < m + 1
      <4>1. i < j - 1
        BY <2>4, <3>2, <1>2, <1>3
      <4> QED
        BY <4>1, <3>1, <3>2, <2>1, <1>7
    <3>3. CASE i = m + 1
      BY <3>1, <3>3, <1>3, <1>4, <1>6
    <3>4. CASE i > m + 1
      <4>1. ipas'[i] = ipas[i - 1] /\ i - 1 \in 1..Len(ipas) /\ i - 1 < j - 1
        BY <3>4, <1>2, <1>3, <1>7
      <4> QED
        BY <4>1, <3>1, <2>1
    <3> QED
      BY <3>2, <3>3, <3>4, <1>2, <1>3
  <2>5. j < m + 1 \/ j = m + 1 \/ j > m + 1
    BY <1>2, <1>3
  <2> QED
    BY <2>2, <2>3, <2>4, <2>5
<1>14. Dated'
  <2> SUFFICES ASSUME NEW i \in 1..(Len(ipas) + 1), ipas'[i].host \in Host
               PROVE  last'[ipas'[i].host].at - ipas'[i].ts <= Elapsed - now
    BY <1>6 DEF Dated, Elapsed
  <2>1. CASE i = m + 1
    <3>1. ipas'[i] = e
      BY <2>1, <1>6
    <3>2. last'[ipas'[i].host].at = Elapsed /\ ipas'[i].ts = now
      BY <3>1, <1>4, <1>8
    <3> QED
      BY <3>2, ClocksAreNumbers DEF IInv
  <2>2. CASE i # m + 1
    <3>1. PICK j \in 1..Len(ipas) : ipas'[i] = ipas[j]
      <4>1. CASE i < m + 1
        BY <4>1, <1>2, <1>3, <1>7
      <4>2. CASE i > m + 1
        <5>1. i - 1 \in 1..Len(ipas) /\ ipas'[i] = ipas[i - 1]
          BY <4>2, <1>2, <1>3, <1>7
        <5> QED
          BY <5>1
      <4> QED
        BY <2>2, <4>1, <4>2, <1>2, <1>3
    <3>2. ipas[j].host # req[t]
      BY <1>1, <1>2, <1>3
    <3> QED
      BY <3>1, <3>2, <1>8 DEF IInv, Dated, Elapsed
  <2> QED
    BY <2>1, <2>2
<1>15. Stored'
  <2>1. DOMAIN ipas = 1..Len(ipas) /\ DOMAIN ipas' = 1..(Len(ipas) + 1)
    BY <1>6, TableType, LenProperties DEF IInv
  <2>2. ASSUME NEW h, InTable(h)
        PROVE  InTable(h)'
    <3>1. PICK j \in 1..Len(ipas) : ipas[j].host = h
      BY <2>1, <2>2 DEF InTable
    <3>2. j \in 1..(Len(ipas) + 1) /\ j + 1 \in 1..(Len(ipas) + 1)
      BY <1>2
    <3>3. ipas'[j] = ipas[j] \/ ipas'[j + 1] = ipas[j]
      <4>1. j \in 1..m \/ j \in (m + 1)..Len(ipas)
        BY <1>2, <1>3
      <4> QED
        BY <4>1, <1>6
    <3> QED
      BY <3>1, <3>2, <3>3, <2>1 DEF InTable
  <2>3. InTable(req[t])'
    <3>1. m + 1 \in 1..(Len(ipas) + 1) /\ ipas'[m + 1] = e
      BY <1>2, <1>3, <1>6
    <3> QED
      BY <3>1, <2>1, <1>4 DEF InTable
  <2> QED
    BY <2>2, <2>3, <1>8 DEF IInv, Stored
<1> QED
  BY <1>9, <1>12, <1>13, <1>14, <1>15 DEF IInv

\* A search that fails leaves no place for an entry of the host.
LEMMA AbsentIsNew ==
  ASSUME IInv, NEW t \in Thread, pc[t] = "absent"
  PROVE  \A i \in 1..Len(ipas) : ipas[i].host # req[t]
<1>1. Len(ipas) \in Nat /\ \A i \in 1..Len(ipas) : ipas[i].host \in Nat
  BY TableType DEF IInv
<1>2. l[t] \in Nat /\ req[t] \in Nat
  BY DEF IInv, TypeOK
<1>3. Around(t) /\ l[t] = u[t]
  BY DEF IInv, Searching
<1> QED
  BY <1>1, <1>2, <1>3 DEF Around

LEMMA AddFailsStep ==
  ASSUME IInv, NEW t \in Thread, AddFails(t)
  PROVE  IInv'
<1> USE DEF AddFails, Goto
<1>1. \A s \in Thread \ {t} : pc'[s] = pc[s] /\ pc[s] \notin Busy
  BY DEF IInv, Locked, TypeOK, Busy
<1>2. pc'[t] = "create" /\ pc[t] # "idle"
  BY DEF IInv, TypeOK
<1>3. /\ last' \in [Host -> [n : 0..2, at : Time]]
      /\ \A h \in Host : h # req[t] => last'[h] = last[h]
  BY <1>2, GrantedType DEF IInv
<1>4. TypeOK'
  BY <1>3 DEF IInv, TypeOK
<1>5. Locked' /\ Searching' /\ Behind' /\ Asked'
  BY <1>1, <1>2 DEF IInv, Locked, Searching, Behind, Elapsed, Busy, Asked
<1>6. Ascending' /\ Stored'
  BY DEF IInv, Ascending, Stored
<1>7. Dated'
  <2>1. \A i \in 1..Len(ipas) : ipas[i].host # req[t]
    BY AbsentIsNew
  <2> QED
    BY <2>1, <1>3 DEF IInv, Dated, Elapsed
<1> QED
  BY <1>4, <1>5, <1>6, <1>7 DEF IInv

LEMMA CreateStep ==
  ASSUME IInv, NEW t \in Thread, dp_create_linkstate(t)
  PROVE  IInv'
<1> USE DEF dp_create_linkstate, Return, Goto
<1>1. TypeOK' /\ Locked' /\ Asked'
  BY DEF IInv, TypeOK, Locked, Asked, Busy
<1>2. Ascending' /\ Behind' /\ Dated' /\ Stored'
  BY DEF IInv, Ascending, Behind, Dated, Elapsed, Stored, InTable
<1>3. Searching'
  BY DEF IInv, TypeOK, Searching, Around, Middle
<1> QED
  BY <1>1, <1>2, <1>3 DEF IInv

LEMMA TimeStep ==
  ASSUME IInv, Tick \/ SetBack \/ SetForward
  PROVE  IInv'
<1> USE DEF Tick, SetBack, SetForward
<1>1. /\ time \in 0..MaxTime /\ ahead \in 0..MaxAhead /\ now \in Clock
      /\ Elapsed \in Int /\ now \in Int
  BY EaseAssumption DEF IInv, TypeOK, Clock, Elapsed
<1>2. /\ Behind' /\ now' \in Clock
      /\ time' \in 0..MaxTime /\ ahead' \in 0..MaxAhead
      /\ Elapsed' \in Int /\ Elapsed' - now' >= Elapsed - now
  <2>1. now <= time + ahead /\ (time + ahead) - now <= MaxBack
    BY DEF IInv, Behind, Elapsed
  <2>2. /\ time \in 0..MaxTime /\ ahead \in 0..MaxAhead
        /\ now \in (-MaxBack)..(MaxTime + MaxAhead)
        /\ MaxTime \in Nat /\ MaxBack \in Nat /\ MaxAhead \in Nat
    BY <1>1, EaseAssumption DEF Clock
  <2>3. CASE Tick
    BY <2>1, <2>2, <2>3 DEF Behind, Clock, Elapsed
  <2>4. CASE SetBack
    BY <2>1, <2>2, <2>4 DEF Behind, Clock, Elapsed
  <2>5. CASE SetForward
    BY <2>1, <2>2, <2>5 DEF Behind, Clock, Elapsed
  <2> QED
    BY <2>3, <2>4, <2>5
<1>3. TypeOK'
  BY <1>2 DEF IInv, TypeOK
<1>4. Locked' /\ Asked' /\ Ascending' /\ Stored'
  BY DEF IInv, Locked, Asked, Ascending, Stored, InTable, Busy
<1>5. Searching'
  BY DEF IInv, Searching, Around, Middle
<1>6. Dated'
  <2>1. \A i \in 1..Len(ipas) : ipas[i].ts \in Int
    BY TableType DEF IInv
  <2>2. \A h \in Host : last[h].at \in Int
    BY ClocksAreNumbers DEF IInv
  <2>3. ipas' = ipas /\ last' = last /\ Elapsed' \in Int /\ now' \in Int
    BY <1>1, <1>2
  <2> SUFFICES ASSUME NEW i \in 1..Len(ipas), ipas[i].host \in Host
               PROVE  last[ipas[i].host].at - ipas[i].ts <= Elapsed' - now'
    BY <2>3 DEF Dated, Elapsed
  <2>4. last[ipas[i].host].at - ipas[i].ts <= Elapsed - now
    BY DEF IInv, Dated, Elapsed
  <2> QED
    BY <1>1, <1>2, <2>1, <2>2, <2>3, <2>4, SMTT(30)
<1> QED
  BY <1>2, <1>3, <1>4, <1>5, <1>6 DEF IInv

LEMMA StutterStep == IInv /\ UNCHANGED vars => IInv'
  BY DEF IInv, vars, TypeOK, Locked, Asked, Ascending, Searching, Around,
         Middle, Behind, Dated, Elapsed, Stored, InTable, Busy

LEMMA IInvInductive == IInv /\ [Next]_vars => IInv'
<1> SUFFICES ASSUME IInv, [Next]_vars PROVE IInv'
  OBVIOUS
<1>1. CASE Tick \/ SetBack \/ SetForward
  BY <1>1, TimeStep
<1>2. ASSUME NEW t \in Thread, Step(t) PROVE IInv'
  BY <1>2, LockStep, SearchStep, SearchEndsStep, FoundStep, AddStep,
     AddFailsStep, CreateStep DEF Step
<1> QED
  BY <1>1, <1>2, StutterStep DEF Next

LEMMA IInvAlways == Spec => []IInv
  BY InitHolds, IInvInductive, PTL DEF Spec

-----------------------------------------------------------------------------
(***************************************************************************)
(* Type correctness: clocks within their bounds, entries of the table with *)
(* a host and a time, for any number of threads and nodes.                 *)
(***************************************************************************)
THEOREM TypeCorrect == Spec => []TypeOK
<1>1. IInv => TypeOK
  BY DEF IInv
<1> QED
  BY <1>1, IInvAlways, PTL

(***************************************************************************)
(* bsearch_pcon finds the entry of a host if and only if there is one, for *)
(* a table of any length: pcon_connect keeps it sorted.                    *)
(***************************************************************************)
THEOREM SearchIsRight == Spec => []SearchRight
<1>1. IInv => SearchRight
  <2> SUFFICES ASSUME IInv PROVE SearchRight
    OBVIOUS
  <2>1. DOMAIN ipas = 1..Len(ipas)
    BY TableType DEF IInv
  <2>2. ASSUME NEW t \in Thread, pc[t] = "found"
        PROVE  Middle(t) + 1 \in DOMAIN ipas /\ ipas[Middle(t) + 1].host = req[t]
    BY <2>1, <2>2 DEF IInv, Searching
  <2>3. ASSUME NEW t \in Thread, pc[t] = "absent"
        PROVE  \A i \in DOMAIN ipas : ipas[i].host # req[t]
    BY <2>1, <2>3, AbsentIsNew
  <2> QED
    BY <2>2, <2>3 DEF SearchRight
<1> QED
  BY <1>1, IInvAlways, PTL

(***************************************************************************)
(* Two attempts to connect to one host are more than PC_CON_EASE_SEC apart *)
(* in time, less what the clock was set forward in between, for any number *)
(* of threads and of adjustments of the clock in both directions, and      *)
(* although allocations may fail.                                          *)
(***************************************************************************)
THEOREM AttemptsAreEased == Spec => Eased
<1> DEFINE A == \A h \in Host :
                  /\ last'[h] # last[h] /\ last[h].n > 0
                  /\ "nomem" \in Faults => InTable(h)
                  => last'[h].at - last[h].at > EASE
<1>1. IInv /\ [Next]_vars => [A]_vars
  <2> SUFFICES ASSUME IInv, Next,
                      NEW h \in Host, last'[h] # last[h], last[h].n > 0,
                      "nomem" \in Faults => InTable(h)
               PROVE  last'[h].at - last[h].at > EASE
    OBVIOUS
  <2>1. InTable(h)
    BY DEF IInv, Stored
  <2>2. /\ DOMAIN ipas = 1..Len(ipas)
        /\ \A i \in 1..Len(ipas) : ipas[i].host \in Nat /\ ipas[i].ts \in Int
    BY TableType DEF IInv
  <2>3. PICK t \in Thread : Found(t) \/ Add(t) \/ AddFails(t)
    BY DEF Next, Step, Tick, SetBack, SetForward, Lock, Search, SearchEnds,
           dp_create_linkstate
  <2>4. last' = Granted(t) /\ pc[t] \in {"found", "absent"}
    BY <2>3 DEF Found, Add, AddFails
  <2>5. h = req[t] /\ last'[h].at = Elapsed
    BY <2>4, GrantedType DEF IInv
  <2>6. pc[t] # "absent"
    BY <2>1, <2>2, <2>5, AbsentIsNew DEF InTable
  <2>7. Found(t)
    BY <2>3, <2>6 DEF Add, AddFails
  <2>8. ~TooRecent(now - ipas[Middle(t) + 1].ts)
    BY <2>7 DEF Found
  <2>9. /\ Middle(t) + 1 \in 1..Len(ipas)
        /\ ipas[Middle(t) + 1].host = h
    BY <2>7, <2>5 DEF Found, IInv, Searching
  <2>10. last[h].at - ipas[Middle(t) + 1].ts <= Elapsed - now
    BY <2>9 DEF IInv, Dated, Elapsed
  <2>11. last[h].at \in Int /\ Elapsed \in Int /\ now \in Int
    BY EaseAssumption DEF IInv, TypeOK, Time, Clock, Elapsed
  <2> QED
    BY <2>2, <2>5, <2>8, <2>9, <2>10, <2>11, EaseAssumption, SMTT(30) DEF TooRecent
<1> QED
  BY <1>1, IInvAlways, PTL DEF Spec, Eased

-----------------------------------------------------------------------------
(* The size of the table.                                                  *)

\* The entries are hosts that were reported, and the array has room for them.
Fits ==
  /\ \A i \in 1..Len(ipas) : ipas[i].host \in Host
  /\ Len(ipas) <= mem

LEMMA FitsAdd ==
  ASSUME IInv, Fits, NEW t \in Thread, Add(t)
  PROVE  Fits'
<1> DEFINE n == Len(ipas)
           e == [host |-> req[t], ts |-> now]
           m == l[t]
<1>1. TypeOK /\ Around(t) /\ l[t] = u[t] /\ req[t] \in Host
  BY DEF IInv, Searching, Asked, Add
<1>2. e \in Entry /\ ipas \in Seq(Entry) /\ n \in Nat /\ mem \in Nat
  BY <1>1, HostType, TableType DEF TypeOK, Entry
<1>3. /\ m \in 0..n
      /\ \A i \in 1..n : /\ i <= m => ipas[i].host < e.host
                         /\ i > m => ipas[i].host > e.host
  BY <1>1, <1>2 DEF Around, TypeOK
<1>4. ipas' = Sorted(ipas, e) /\ mem' = Grown(n)
  BY DEF Add
<1>5. e.host \in Host
  BY <1>1
<1> HIDE DEF e, m
<1>6. /\ Len(ipas') = n + 1
      /\ \A i \in 1..m : ipas'[i] = ipas[i]
      /\ ipas'[m + 1] = e
      /\ \A i \in (m + 1)..n : ipas'[i + 1] = ipas[i]
  <2>1. /\ Len(Sorted(ipas, e)) = Len(ipas) + 1
        /\ \A i \in 1..m : Sorted(ipas, e)[i] = ipas[i]
        /\ Sorted(ipas, e)[m + 1] = e
        /\ \A i \in (m + 1)..Len(ipas) : Sorted(ipas, e)[i + 1] = ipas[i]
    BY ONLY <1>2, <1>3, SortedInserts, ZenonT(60)
  <2> QED
    BY ONLY <1>4, <2>1, Zenon
<1>7. \A i \in 1..(n + 1) : ipas'[i].host \in Host
  <2> TAKE i \in 1..(n + 1)
  <2>1. CASE i <= m
    BY <1>2, <1>3, <1>6, <2>1, SMTT(30) DEF Fits
  <2>2. CASE i = m + 1
    BY <1>5, <1>6, <2>2
  <2>3. CASE i > m + 1
    <3>1. i - 1 \in (m + 1)..n /\ (i - 1) + 1 = i /\ i - 1 \in 1..n
      BY <1>2, <1>3, <2>3
    <3>2. ipas'[i] = ipas[i - 1]
      BY <1>6, <3>1
    <3> QED
      BY <3>1, <3>2 DEF Fits
  <2> QED
    BY <1>3, <2>1, <2>2, <2>3
<1>8. n + 1 <= mem'
  BY <1>2, <1>4 DEF Grown, Fits
<1> QED
  BY <1>6, <1>7, <1>8 DEF Fits

LEMMA FitsFound ==
  ASSUME IInv, Fits, NEW t \in Thread, Found(t)
  PROVE  Fits'
<1> DEFINE k == Middle(t) + 1
           r == [ipas[k] EXCEPT !.ts = now]
<1>1. ipas \in Seq(Entry) /\ k \in 1..Len(ipas) /\ now \in Clock
  BY DEF IInv, TypeOK, Searching, Found
<1>2. mem' = mem /\ (ipas' = ipas \/ ipas' = [ipas EXCEPT ![k] = r])
  BY DEF Found
<1>3. ipas[k] \in Entry
  BY <1>1
<1>4. r \in Entry /\ r.host = ipas[k].host
  BY <1>1, <1>3 DEF Entry
<1> HIDE DEF k, r
<1>5. ipas' # ipas => /\ Len(ipas') = Len(ipas)
                      /\ \A i \in 1..Len(ipas) : ipas'[i] = IF i = k THEN r ELSE ipas[i]
  BY <1>1, <1>2, <1>4, ExceptSeq
<1> QED
  BY <1>1, <1>2, <1>4, <1>5 DEF Fits

LEMMA FitsAlways == Spec => [](IInv /\ Fits)
<1>1. Init => Fits
  BY SizeAssumption DEF Init, Fits
<1>2. IInv /\ Fits /\ [Next]_vars => Fits'
  <2> SUFFICES ASSUME IInv, Fits, [Next]_vars PROVE Fits'
    OBVIOUS
  <2>1. ASSUME UNCHANGED <<ipas, mem>> PROVE Fits'
    BY <2>1 DEF Fits
  <2>2. ASSUME NEW t \in Thread, Step(t), ~Add(t), ~Found(t)
        PROVE  UNCHANGED <<ipas, mem>>
    BY <2>2 DEF Step, Lock, Search, SearchEnds, AddFails, dp_create_linkstate
  <2>3. CASE Tick \/ SetBack \/ SetForward \/ UNCHANGED vars
    BY <2>1, <2>3 DEF Tick, SetBack, SetForward, vars
  <2> QED
    BY <2>1, <2>2, <2>3, FitsAdd, FitsFound DEF Next
<1> QED
  BY <1>1, <1>2, IInvAlways, PTL DEF Spec

LEMMA CountTo == \A n \in Nat : IsFiniteSet(1..n) /\ Cardinality(1..n) = n
<1> TAKE n \in Nat
<1>1. IsFiniteSet(1..n) /\ Cardinality(1..n) = IF 1 > n THEN 0 ELSE n - 1 + 1
  BY FS_Interval
<1> QED
  BY <1>1

\* Each node is reported with at most two addresses.
LEMMA HostCount ==
  IsFiniteSet(Host) /\ Cardinality(Host) <= 2 * Cardinality(Node)
<1> DEFINE P == Node \X (1..2)
           f == [p \in P |-> IF p[2] = 1 THEN Unpack(Pack(p[1]))
                             ELSE Unpack(Pack(Unpack(Pack(p[1]))))]
<1>1. IsFiniteSet(1..2) /\ Cardinality(1..2) = 2
  BY CountTo
<1>2. IsFiniteSet(Node) /\ Cardinality(Node) \in Nat
  BY NodeAssumption, FS_CardinalityType
<1>3. IsFiniteSet(P) /\ Cardinality(P) = Cardinality(Node) * 2
  BY <1>1, <1>2, FS_Product
<1>4. f \in Surjection(P, Host)
  <2>1. f \in [P -> Host]
    BY DEF Host, Reported
  <2>2. \A h \in Host : \E p \in P : f[p] = h
    <3> TAKE h \in Host
    <3>1. PICK n \in Node : h \in Reported(n)
      BY DEF Host
    <3>2. CASE h = Unpack(Pack(n))
      <4>1. <<n, 1>> \in P /\ f[<<n, 1>>] = h
        BY <3>2
      <4> QED
        BY <4>1
    <3>3. CASE h = Unpack(Pack(Unpack(Pack(n))))
      <4>1. <<n, 2>> \in P /\ f[<<n, 2>>] = h
        BY <3>3
      <4> QED
        BY <4>1
    <3> QED
      BY <3>1, <3>2, <3>3 DEF Reported
  <2> HIDE DEF f, P
  <2> QED
    BY <2>1, <2>2 DEF Surjection
<1> HIDE DEF f, P
<1>5. IsFiniteSet(Host) /\ Cardinality(Host) <= Cardinality(P)
  BY <1>3, <1>4, FS_Surjection
<1>6. Cardinality(Host) \in Nat
  BY <1>5, FS_CardinalityType
<1> QED
  BY <1>2, <1>3, <1>5, <1>6

(***************************************************************************)
(* pcon_connect never takes an entry out of its table.  Still the table    *)
(* has at most two entries for each node, for any network and any number   *)
(* of reports, and DA_CHECK_AND_REALLOC has made room for all of them,     *)
(* failed allocations included.                                            *)
(***************************************************************************)
THEOREM TableIsBounded == Spec => []TableFits
<1>1. IInv /\ Fits => TableFits
  <2> SUFFICES ASSUME IInv, Fits PROVE TableFits
    OBVIOUS
  <2> DEFINE n == Len(ipas)
             f == [i \in 1..n |-> ipas[i].host]
  <2>1. n \in Nat /\ \A i \in 1..n : ipas[i].host \in Nat
    BY TableType DEF IInv
  <2>2. f \in Injection(1..n, Host)
    <3>1. f \in [1..n -> Host]
      BY DEF Fits
    <3>2. \A i, j \in 1..n : f[i] = f[j] => i = j
      <4> SUFFICES ASSUME NEW i \in 1..n, NEW j \in 1..n, ipas[i].host = ipas[j].host
                   PROVE  i = j
        OBVIOUS
      <4>1. ~(i < j) /\ ~(j < i)
        BY <2>1 DEF IInv, Ascending
      <4> QED
        BY <4>1, <2>1
    <3> HIDE DEF f
    <3> QED
      BY <3>1, <3>2 DEF Injection, IsInjective
  <2> HIDE DEF f
  <2>3. Cardinality(1..n) <= Cardinality(Host)
    BY <2>2, HostCount, FS_Injection
  <2>4. Cardinality(1..n) = n
    BY <2>1, CountTo
  <2>5. Cardinality(Host) \in Nat /\ Cardinality(Node) \in Nat
    BY HostCount, NodeAssumption, FS_CardinalityType
  <2>6. n <= 2 * Cardinality(Node)
    BY <2>1, <2>3, <2>4, <2>5, HostCount
  <2> QED
    BY <2>6 DEF Fits, TableFits
<1> QED
  BY <1>1, FitsAlways, PTL

=============================================================================
