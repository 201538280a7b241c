---------------------- MODULE BootstrapDeliveryProofs ----------------------
(***************************************************************************)
(* Proofs about the bootstrap Secret, for any number of credentials,       *)
(* workers, interventions and sizes of a sweep: DeliveryInv and            *)
(* DeletesExactly.                                                         *)
(*                                                                         *)
(* The argument turns on a credential having one object in its life: while *)
(* its create is ahead or on its way (Unborn), there is none, the journal  *)
(* names none, and no cleanup has got past looking for one.  So an object  *)
(* never appears behind a cleanup that is about to close the entry.        *)
(***************************************************************************)
EXTENDS BootstrapDelivery, TLAPS

States ==
  {"IDLE", "AUTHORIZE", "PLAN", "LOAD", "CHECK", "CREATE", "RECHECK", "WITHDRAW", "BIND", "CONFIRM",
   "RESOLVE", "PROJECT", "DONE", "UNDO", "FAILED", "ENDED"}
PubType == [at : States, ref : Nat]
RowType == [saved : BOOLEAN, uid : Nat, requested : BOOLEAN, cleaned : BOOLEAN]
SecretType == [uid : Nat, owned : BOOLEAN]
CleanType ==
  [at : {"IDLE", "REQUEST", "LOAD", "RECOVER", "BIND", "GET", "DELETE", "COMPLETE"}, c : Creds,
   ref : Nat, seen : SecretType, whole : BOOLEAN, batch : Seq(Creds)]

Types ==
  /\ cred \in [Creds -> {"NONE", "PENDING", "CONSUMED"}]
  /\ expired \in [Creds -> BOOLEAN] /\ fenced \in [Creds -> BOOLEAN]
  /\ row \in [Creds -> RowType] /\ due \in Seq(Creds) /\ later \in Seq(Creds)
  /\ secret \in [Creds -> SecretType] /\ flight \subseteq Creds /\ created \in [Creds -> Nat]
  /\ pub \in [Creds -> PubType] /\ clean \in [Procs -> CleanType]
  /\ pod \in [Creds -> {"NO", "YES", "HELD"}] /\ faults \in Nat

\* Every entry of the journal, and nothing else, has one place in the order.
Places ==
  /\ IsInjective(due) /\ IsInjective(later) /\ Range(due) \cap Range(later) = {}
  /\ \A c \in Creds : row[c].saved <=> c \in Range(due) \cup Range(later)

\* The create of the credential's object is ahead or on its way.
Unborn(c) ==
  pub[c].at \in {"IDLE", "AUTHORIZE", "PLAN", "LOAD", "CHECK", "CREATE"} \/ c \in flight

\* The journal, the object and the materialization of a credential agree.
EntryInv(c) ==
  /\ row[c].saved \/ row[c] = NoRow
  /\ row[c].uid <= created[c] /\ secret[c].uid <= created[c] /\ pub[c].ref <= created[c]
  /\ row[c].cleaned => row[c].requested /\ row[c].uid # 0
  /\ secret[c].owned => secret[c].uid # 0 /\ row[c].saved /\ ~row[c].cleaned
  /\ c \in flight => row[c].saved /\ pub[c].at \in {"UNDO", "FAILED", "ENDED"}
  /\ Unborn(c) => ~secret[c].owned /\ row[c].uid = 0
  /\ pub[c].at \in Journaled \cup {"CREATE", "RECHECK", "WITHDRAW", "PROJECT", "UNDO"} => row[c].saved
  /\ pub[c].at \in {"RECHECK", "BIND"} => pub[c].ref # 0
  /\ pub[c].at \in {"CONFIRM", "RESOLVE", "PROJECT"} \/ pod[c] # "NO" => row[c].uid # 0

\* A cleanup that has found its object works on one that was there, and comes
\* to the end of its entry only without it.
CleanInv(p) ==
  LET c == clean[p].c IN
  /\ p \in Creds => c = p
  /\ p \in Workers => clean[p].whole /\ (clean[p].at # "IDLE" => row[c].saved)
  /\ \A i \in DOMAIN clean[p].batch : row[clean[p].batch[i]].saved
  /\ clean[p].at \notin {"IDLE", "REQUEST"} \/ ~clean[p].whole => row[c].saved
  /\ clean[p].at \in {"BIND", "GET", "DELETE", "COMPLETE"} =>
       clean[p].ref # 0 /\ ~Unborn(c)
  /\ clean[p].at = "BIND" => clean[p].ref <= created[c]
  /\ clean[p].at = "DELETE" => clean[p].seen.owned
  /\ clean[p].at = "COMPLETE" => ~secret[c].owned

IInv ==
  /\ Types /\ Places
  /\ \A c \in Creds : EntryInv(c)
  /\ \A p \in Procs : CleanInv(p)

-----------------------------------------------------------------------------
(* The order of the journal *)

\* The elements of a joined order.
LEMMA ConcatIs ==
  ASSUME NEW s \in Seq(Creds), NEW t \in Seq(Creds)
  PROVE  \A i \in 1..Len(s) + Len(t) : (s \o t)[i] = IF i <= Len(s) THEN s[i] ELSE t[i - Len(s)]
  OBVIOUS

\* What follows place k of an order.
LEMMA SuffixIs ==
  ASSUME NEW s \in Seq(Creds), NEW k \in 1..Len(s)
  PROVE  /\ SubSeq(s, k + 1, Len(s)) \in Seq(Creds)
         /\ Len(SubSeq(s, k + 1, Len(s))) = Len(s) - k
         /\ \A i \in 1..Len(s) - k : SubSeq(s, k + 1, Len(s))[i] = s[k + i]
<1>1. SubSeq(s, k + 1, Len(s)) \in Seq(Creds)
  OBVIOUS
<1>2. Len(SubSeq(s, k + 1, Len(s))) = Len(s) - k
  OBVIOUS
<1>3. \A i \in 1..Len(s) - k : SubSeq(s, k + 1, Len(s))[i] = s[k + i]
  OBVIOUS
<1> QED  BY <1>1, <1>2, <1>3

\* An entry that is put at the end of an order has one place in it.
LEMMA AppendPlaces ==
  ASSUME NEW q \in Seq(Creds), NEW c \in Creds, IsInjective(q), c \notin Range(q)
  PROVE  /\ Append(q, c) \in Seq(Creds) /\ IsInjective(Append(q, c))
         /\ Range(Append(q, c)) = Range(q) \cup {c}
<1> DEFINE n == Len(q)
           r == Append(q, c)
<1>1. r \in Seq(Creds) /\ Len(r) = n + 1 /\ DOMAIN r = 1..n + 1 /\ DOMAIN q = 1..n /\ n \in Nat
  OBVIOUS
<1>2. r[n + 1] = c /\ \A i \in 1..n : r[i] = q[i]
  OBVIOUS
<1>3. IsInjective(r)
  BY <1>1, <1>2 DEF IsInjective, Range
<1>4. Range(r) = Range(q) \cup {c}
  BY <1>1, <1>2 DEF Range
<1> QED  BY <1>1, <1>3, <1>4

\* The other entries keep their places when one is taken out.
LEMMA WithoutPlaces ==
  ASSUME NEW q \in Seq(Creds), NEW c \in Creds, IsInjective(q)
  PROVE  /\ Without(q, c) \in Seq(Creds) /\ IsInjective(Without(q, c))
         /\ Range(Without(q, c)) = Range(q) \ {c}
<1>1. CASE c \notin Range(q)
  BY <1>1 DEF Without
<1>2. CASE c \in Range(q)
  <2>1. PICK k \in DOMAIN q : k = CHOOSE i \in DOMAIN q : q[i] = c
    BY <1>2 DEF Range
  <2>2. k \in 1..Len(q) /\ q[k] = c /\ Len(q) \in Nat /\ DOMAIN q = 1..Len(q)
    BY <1>2, <2>1 DEF Range
  <2> DEFINE a == SubSeq(q, 1, k - 1)
             b == SubSeq(q, k + 1, Len(q))
             r == Without(q, c)
  <2>3. r = a \o b
    BY ZenonT(60), <1>2, <2>1 DEF Without
  <2>4. a \in Seq(Creds) /\ Len(a) = k - 1 /\ \A i \in 1..k - 1 : a[i] = q[i]
    BY <2>2
  <2>5. b \in Seq(Creds) /\ Len(b) = Len(q) - k /\ \A i \in 1..Len(q) - k : b[i] = q[k + i]
    BY <2>2, SuffixIs
  <2> HIDE DEF a, b, r
  <2>6. r \in Seq(Creds) /\ Len(r) = Len(q) - 1 /\ DOMAIN r = 1..Len(q) - 1
    <3>1. r \in Seq(Creds) /\ Len(r) = Len(a) + Len(b)
      BY <2>3, <2>4, <2>5
    <3> QED  BY <2>2, <2>4, <2>5, <3>1
  <2>7. /\ \A i \in 1..k - 1 : r[i] = q[i]
        /\ \A i \in k..Len(q) - 1 : r[i] = q[i + 1]
    <3>0. \A i \in 1..Len(a) + Len(b) : (a \o b)[i] = IF i <= Len(a) THEN a[i] ELSE b[i - Len(a)]
      BY ZenonT(60), <2>4, <2>5, ConcatIs
    <3>1. \A i \in 1..Len(a) + Len(b) : r[i] = IF i <= Len(a) THEN a[i] ELSE b[i - Len(a)]
      BY <2>3, <3>0
    <3>2. ASSUME NEW i \in 1..k - 1 PROVE r[i] = q[i]
      BY <2>2, <2>4, <2>5, <3>1
    <3>3. ASSUME NEW i \in k..Len(q) - 1 PROVE r[i] = q[i + 1]
      <4>0. /\ i \in 1..Len(a) + Len(b) /\ ~(i <= Len(a)) /\ i - (k - 1) \in 1..Len(q) - k
            /\ Len(a) = k - 1
        BY <2>2, <2>4, <2>5
      <4>1. r[i] = b[i - (k - 1)] /\ i - (k - 1) \in 1..Len(q) - k
        BY ZenonT(60), <3>1, <4>0
      <4>2. k + (i - (k - 1)) = i + 1
        BY <2>2
      <4> QED  BY <2>5, <4>1, <4>2
    <3> QED  BY <3>2, <3>3
  <2>8. IsInjective(r)
    <3>1. SUFFICES ASSUME NEW i \in 1..Len(q) - 1, NEW j \in 1..Len(q) - 1, i < j
                   PROVE  r[i] # r[j]
      BY <2>2, <2>6 DEF IsInjective
    <3>2. \A m \in 1..Len(q), n \in 1..Len(q) : m # n => q[m] # q[n]
      BY <2>2 DEF IsInjective
    <3>3. CASE j < k
      BY <2>2, <2>7, <3>1, <3>2, <3>3
    <3>4. CASE i < k /\ k <= j
      BY <2>2, <2>7, <3>1, <3>2, <3>4
    <3>5. CASE k <= i
      BY <2>2, <2>7, <3>1, <3>2, <3>5
    <3> QED  BY <2>2, <3>1, <3>3, <3>4, <3>5
  <2>9. Range(r) \subseteq Range(q) \ {c}
    <3>1. \A m \in 1..Len(q), n \in 1..Len(q) : m # n => q[m] # q[n]
      BY <2>2 DEF IsInjective
    <3>2. ASSUME NEW i \in 1..Len(q) - 1 PROVE r[i] \in Range(q) /\ r[i] # c
      <4>1. CASE i < k
        BY <2>2, <2>7, <3>1, <4>1 DEF Range
      <4>2. CASE k <= i
        BY <2>2, <2>7, <3>1, <4>2 DEF Range
      <4> QED  BY <2>2, <4>1, <4>2
    <3> QED  BY <2>6, <3>2 DEF Range
  <2>10. ASSUME NEW d \in Range(q), d # c
         PROVE  d \in Range(r)
    <3>1. PICK i \in 1..Len(q) : q[i] = d
      BY <2>2 DEF Range
    <3>2. i # k
      BY <2>2, <2>10, <3>1
    <3>3. CASE i < k
      <4>1. i \in 1..Len(q) - 1 /\ r[i] = d
        BY <2>2, <2>7, <3>1, <3>3
      <4> QED  BY <2>6, <4>1 DEF Range
    <3>4. CASE i > k
      <4>1. i - 1 \in 1..Len(q) - 1 /\ r[i - 1] = q[i]
        BY <2>2, <2>7, <3>1, <3>4
      <4> QED  BY <2>6, <3>1, <4>1 DEF Range
    <3> QED  BY <2>2, <3>1, <3>2, <3>3, <3>4
  <2> QED  BY <2>6, <2>8, <2>9, <2>10 DEF r
<1> QED  BY <1>1, <1>2

\* RetryLater and RetryNow give an entry that is saved its one new place.
LEMMA RetryKeepsPlaces ==
  ASSUME Types, Places, NEW c \in Creds, row[c].saved, RetryLater(c) \/ RetryNow(c),
         \A d \in Creds : row'[d].saved <=> row[d].saved
  PROVE  due' \in Seq(Creds) /\ later' \in Seq(Creds) /\ Places'
<1> DEFINE a == Without(due, c)
           b == Without(later, c)
<1>1. /\ a \in Seq(Creds) /\ IsInjective(a) /\ Range(a) = Range(due) \ {c}
      /\ b \in Seq(Creds) /\ IsInjective(b) /\ Range(b) = Range(later) \ {c}
  BY WithoutPlaces DEF Types, Places
<1> HIDE DEF a, b
<1>2. CASE due' = a /\ later' = Append(b, c)
  <2>1. later' \in Seq(Creds) /\ IsInjective(later') /\ Range(later') = (Range(later) \ {c}) \cup {c}
    BY <1>1, <1>2, AppendPlaces
  <2>2. Range(due') = Range(due) \ {c} /\ IsInjective(due') /\ due' \in Seq(Creds)
    BY ZenonT(60), <1>1, <1>2
  <2> QED  BY ZenonT(60), <2>1, <2>2 DEF Places
<1>3. CASE due' = Append(a, c) /\ later' = b
  <2>1. due' \in Seq(Creds) /\ IsInjective(due') /\ Range(due') = (Range(due) \ {c}) \cup {c}
    BY <1>1, <1>3, AppendPlaces
  <2>2. Range(later') = Range(later) \ {c} /\ IsInjective(later') /\ later' \in Seq(Creds)
    BY ZenonT(60), <1>1, <1>3
  <2> QED  BY ZenonT(60), <2>1, <2>2 DEF Places
<1> QED  BY <1>2, <1>3 DEF RetryLater, RetryNow, a, b

\* In the joined order of a journal, every entry has exactly one place.
LEMMA OnePlace ==
  ASSUME Types, Places, NEW c \in Creds
  PROVE  IF row[c].saved THEN \E i \in DOMAIN queue : \A j \in DOMAIN queue : queue[j] = c <=> j = i
         ELSE c \notin Range(queue)
<1> DEFINE m == Len(due)
           n == Len(later)
<1>1. /\ m \in Nat /\ n \in Nat /\ DOMAIN due = 1..m /\ DOMAIN later = 1..n
      /\ due \in Seq(Creds) /\ later \in Seq(Creds)
  BY DEF Types
<1>2. /\ queue \in Seq(Creds) /\ DOMAIN queue = 1..m + n
      /\ \A i \in 1..m + n : queue[i] = IF i <= m THEN due[i] ELSE later[i - m]
  BY <1>1 DEF queue
<1> HIDE DEF m, n
<1>3. Range(queue) \subseteq Range(due) \cup Range(later)
  <2>1. ASSUME NEW i \in 1..m + n PROVE queue[i] \in Range(due) \cup Range(later)
    <3>1. CASE i <= m
      <4>1. i \in 1..m /\ queue[i] = due[i]
        BY <1>1, <1>2, <3>1
      <4> QED  BY <1>1, <4>1 DEF Range
    <3>2. CASE m < i
      <4>1. i - m \in 1..n /\ queue[i] = later[i - m]
        BY <1>1, <1>2, <3>2
      <4> QED  BY <1>1, <4>1 DEF Range
    <3> QED  BY <1>1, <3>1, <3>2
  <2> QED  BY <1>2, <2>1 DEF Range
<1>4. CASE ~row[c].saved
  BY <1>3, <1>4 DEF Places
<1>5. CASE c \in Range(due)
  <2>1. PICK i \in 1..m : due[i] = c
    BY <1>1, <1>5 DEF Range
  <2>2. ASSUME NEW j \in 1..m + n, queue[j] = c PROVE j = i
    <3>1. CASE j <= m
      BY <1>1, <1>2, <2>1, <2>2, <3>1 DEF Places, IsInjective
    <3>2. CASE m < j
      <4>1. j - m \in 1..n /\ queue[j] = later[j - m]
        BY <1>1, <1>2, <3>2
      <4>2. c \in Range(later)
        BY <1>1, <2>2, <4>1 DEF Range
      <4> QED  BY ZenonT(60), <1>5, <4>2 DEF Places
    <3> QED  BY <1>1, <3>1, <3>2
  <2>3. i \in 1..m + n /\ queue[i] = c
    BY <1>1, <1>2, <2>1
  <2> QED  BY ZenonT(60), <1>2, <1>5, <2>2, <2>3 DEF Places
<1>6. CASE c \in Range(later)
  <2>1. PICK k \in 1..n : later[k] = c
    BY <1>1, <1>6 DEF Range
  <2>2. ASSUME NEW j \in 1..m + n, queue[j] = c PROVE j = m + k
    <3>1. CASE j <= m
      <4>1. j \in 1..m /\ due[j] = c
        BY <1>1, <1>2, <2>2, <3>1
      <4>2. c \in Range(due)
        BY <1>1, <4>1 DEF Range
      <4> QED  BY ZenonT(60), <1>6, <4>2 DEF Places
    <3>2. CASE m < j
      <4>1. j - m \in 1..n /\ later[j - m] = c
        BY <1>1, <1>2, <2>2, <3>2
      <4>2. j - m = k
        BY ZenonT(60), <1>1, <2>1, <4>1 DEF Places, IsInjective
      <4> QED  BY <1>1, <4>2
    <3> QED  BY <1>1, <3>1, <3>2
  <2>3. m + k \in 1..m + n /\ queue[m + k] = c
    <3>1. m + k \in 1..m + n /\ m + k > m /\ (m + k) - m = k
      BY <1>1
    <3> QED  BY <1>1, <1>2, <2>1, <3>1
  <2> QED  BY ZenonT(60), <1>2, <1>6, <2>2, <2>3 DEF Places
<1> QED  BY ZenonT(60), <1>4, <1>5, <1>6 DEF Places

-----------------------------------------------------------------------------
(* What a step may do to a credential and to a cleanup *)

\* Nothing of the credential changes.
Same(c) ==
  /\ row'[c] = row[c] /\ secret'[c] = secret[c] /\ created'[c] = created[c]
  /\ pub'[c] = pub[c] /\ pod'[c] = pod[c] /\ (c \in flight' <=> c \in flight)

\* What cleanups rely on while the credential changes: its entry stays, and an
\* object appears only where none has been.
Grows(c) ==
  /\ row[c].saved => row'[c].saved
  /\ Unborn(c)' => Unborn(c)
  /\ created[c] <= created'[c]
  /\ secret'[c].owned => secret[c].owned \/ Unborn(c)

\* A credential that a step leaves alone keeps what holds of it.
LEMMA SameGrows ==
  ASSUME Types, NEW c \in Creds, Same(c)
  PROVE  Grows(c) /\ (EntryInv(c) => EntryInv(c)')
<1>1. created[c] <= created'[c]
  BY DEF Types, Same
<1>2. Unborn(c)' <=> Unborn(c)
  BY ZenonT(60) DEF Same, Unborn
<1>3. EntryInv(c) => EntryInv(c)'
  BY ZenonT(60), <1>2 DEF Same, EntryInv, NoRow
<1> QED  BY ZenonT(60), <1>1, <1>2, <1>3 DEF Same, Grows

\* A step of one credential keeps the invariant when it keeps it for that
\* credential and for the cleanups that take the step.
LEMMA StepKeeps ==
  ASSUME IInv, Types', Places', NEW c \in Creds,
         \A d \in Creds \ {c} : Same(d), Grows(c), EntryInv(c)',
         \A p \in Procs : clean'[p] = clean[p] \/ CleanInv(p)'
  PROVE  IInv'
<1>1. ASSUME NEW d \in Creds PROVE Grows(d) /\ EntryInv(d)'
  BY ZenonT(60), SameGrows DEF IInv
<1>2. ASSUME NEW p \in Procs PROVE CleanInv(p)'
  <2>1. CASE CleanInv(p)'
    BY ZenonT(60), <2>1
  <2>2. CASE clean'[p] = clean[p]
    <3>1. clean'[p] = clean[p] /\ CleanInv(p) /\ clean[p] \in CleanType
      BY ZenonT(60), <2>2 DEF IInv, Types
    <3>2. clean[p].c \in Creds /\ clean[p].batch \in Seq(Creds) /\ clean[p].ref \in Nat
      BY <3>1 DEF CleanType
    <3>3. \A i \in DOMAIN clean[p].batch : clean[p].batch[i] \in Creds
      BY <3>2
    <3>4. Grows(clean[p].c)
      BY ZenonT(60), <1>1, <3>2
    <3>5. \A i \in DOMAIN clean[p].batch : row'[clean[p].batch[i]].saved
      BY ZenonT(60), <1>1, <3>1, <3>3 DEF Grows, CleanInv
    <3>6. clean[p].ref <= created[clean[p].c] => clean[p].ref <= created'[clean[p].c]
      BY <3>2, <3>4 DEF Grows, IInv, Types
    <3> QED  BY ZenonT(60), <3>1, <3>4, <3>5, <3>6 DEF CleanInv, Grows
  <2> QED  BY ZenonT(60), <2>1, <2>2
<1> QED  BY ZenonT(60), <1>1, <1>2 DEF IInv

\* The materialization of c goes on at x.
Moves(c, x) ==
  /\ pub' = [pub EXCEPT ![c].at = x] /\ x \in States
  /\ x \in {"IDLE", "AUTHORIZE", "PLAN", "LOAD", "CHECK", "CREATE"} =>
       pub[c].at \in {"IDLE", "AUTHORIZE", "PLAN", "LOAD", "CHECK", "CREATE"}
  /\ c \in flight => x \in {"UNDO", "FAILED", "ENDED"}
  /\ x \in Journaled \cup {"CREATE", "RECHECK", "WITHDRAW", "PROJECT", "UNDO"} => row[c].saved
  /\ x \in {"RECHECK", "BIND"} => pub[c].ref # 0
  /\ x \in {"CONFIRM", "RESOLVE", "PROJECT"} => row[c].uid # 0

\* The journal entry of c stays as it is, its cleanup is asked for, or it is
\* over.
Asks(c) ==
  \/ row' = row
  \/ row[c].saved /\ row' = [row EXCEPT ![c].requested = TRUE]
  \/ row[c].requested /\ row[c].uid # 0 /\ ~secret'[c].owned /\ row' = [row EXCEPT ![c].cleaned = TRUE]

\* The object of c stays as it is or is deleted.
Removes(c) == UNCHANGED <<flight, created>> /\ secret' \in {secret, [secret EXCEPT ![c] = NoSecret]}

\* The projection of c stays as it is, or goes on with a bound object.
Projects(c) == pod' = pod \/ (row[c].uid # 0 /\ \E y \in {"YES", "HELD"} : pod' = [pod EXCEPT ![c] = y])

\* A function with one value replaced.
LEMMA Updated ==
  ASSUME NEW S, NEW T, NEW f \in [S -> T], NEW x \in S, NEW v \in T
  PROVE  /\ [f EXCEPT ![x] = v] \in [S -> T] /\ [f EXCEPT ![x] = v][x] = v
         /\ \A y \in S \ {x} : [f EXCEPT ![x] = v][y] = f[y]
  BY ZenonT(60)

\* A journal entry with one column written is one.
LEMMA RowUpdated ==
  ASSUME NEW r \in RowType
  PROVE  /\ r.uid \in Nat /\ r.saved \in BOOLEAN /\ r.requested \in BOOLEAN /\ r.cleaned \in BOOLEAN
         /\ [r EXCEPT !.saved = TRUE] \in RowType /\ [r EXCEPT !.requested = TRUE] \in RowType
         /\ [r EXCEPT !.cleaned = TRUE] \in RowType
         /\ \A u \in Nat : [r EXCEPT !.uid = u] \in RowType
  BY ZenonT(60) DEF RowType

\* A materialization that goes on is one.
LEMMA PubUpdated ==
  ASSUME NEW r \in PubType, NEW x \in States
  PROVE  /\ r.ref \in Nat /\ r.at \in States
         /\ [r EXCEPT !.at = x] \in PubType
         /\ [r EXCEPT !.at = x].at = x /\ [r EXCEPT !.at = x].ref = r.ref
         /\ \A u \in Nat : /\ [r EXCEPT !.at = x, !.ref = u] \in PubType
                           /\ [r EXCEPT !.at = x, !.ref = u].at = x /\ [r EXCEPT !.at = x, !.ref = u].ref = u
  BY ZenonT(60) DEF PubType

\* A cleanup that goes on is one.
LEMMA CleanUpdated ==
  ASSUME NEW r \in CleanType,
         NEW x \in {"IDLE", "REQUEST", "LOAD", "RECOVER", "BIND", "GET", "DELETE", "COMPLETE"}
  PROVE  /\ r.c \in Creds /\ r.ref \in Nat /\ r.whole \in BOOLEAN /\ r.batch \in Seq(Creds)
         /\ [r EXCEPT !.at = x] \in CleanType
         /\ \A u \in Nat : [r EXCEPT !.at = x, !.ref = u] \in CleanType
         /\ \A w \in SecretType : [r EXCEPT !.at = x, !.seen = w] \in CleanType
  BY ZenonT(60) DEF CleanType

\* A credential that gets no object.
LEMMA MovesKeeps ==
  ASSUME IInv, NEW c \in Creds, NEW x, Moves(c, x), Asks(c), Projects(c), Removes(c)
  PROVE  /\ pub' \in [Creds -> PubType] /\ pub'[c].at = x /\ pub'[c].ref = pub[c].ref
         /\ row' \in [Creds -> RowType] /\ \A d \in Creds : row'[d].saved <=> row[d].saved
         /\ pod' \in [Creds -> {"NO", "YES", "HELD"}] /\ secret' \in [Creds -> SecretType]
         /\ \A d \in Creds \ {c} : Same(d)
         /\ Grows(c) /\ EntryInv(c)'
<1>1. Types /\ EntryInv(c) /\ UNCHANGED <<flight, created>>
  BY ZenonT(60) DEF IInv, Removes
<1>2. /\ pub' \in [Creds -> PubType] /\ pub'[c].at = x /\ pub'[c].ref = pub[c].ref
      /\ \A d \in Creds \ {c} : pub'[d] = pub[d]
  <2>1. pub \in [Creds -> PubType] /\ pub[c] \in PubType /\ x \in States
    BY ZenonT(60), <1>1 DEF Types, Moves
  <2>2. /\ [pub[c] EXCEPT !.at = x] \in PubType /\ [pub[c] EXCEPT !.at = x].at = x
        /\ [pub[c] EXCEPT !.at = x].ref = pub[c].ref
    BY ZenonT(60), <2>1, PubUpdated
  <2> QED  BY ZenonT(60), <2>1, <2>2 DEF Moves
<1>3. /\ secret' \in [Creds -> SecretType] /\ \A d \in Creds \ {c} : secret'[d] = secret[d]
      /\ secret'[c] = secret[c] \/ secret'[c] = NoSecret
  <2>1. secret \in [Creds -> SecretType] /\ NoSecret \in SecretType
    BY <1>1 DEF Types, NoSecret, SecretType
  <2> QED  BY ZenonT(60), <2>1 DEF Removes
<1>4. /\ pod' \in [Creds -> {"NO", "YES", "HELD"}]
      /\ \A d \in Creds \ {c} : pod'[d] = pod[d]
      /\ pod'[c] # "NO" => pod[c] # "NO" \/ row[c].uid # 0
  BY ZenonT(60), <1>1 DEF Types, Projects
<1>5. /\ row' \in [Creds -> RowType] /\ \A d \in Creds \ {c} : row'[d] = row[d]
      /\ \/ row'[c] = row[c]
         \/ row[c].saved /\ row'[c] = [row[c] EXCEPT !.requested = TRUE]
         \/ row[c].requested /\ row[c].uid # 0 /\ ~secret'[c].owned /\ row'[c] = [row[c] EXCEPT !.cleaned = TRUE]
  <2>1. row \in [Creds -> RowType]
    BY ZenonT(60), <1>1 DEF Types
  <2>2. [row[c] EXCEPT !.requested = TRUE] \in RowType /\ [row[c] EXCEPT !.cleaned = TRUE] \in RowType
    BY ZenonT(60), <2>1, RowUpdated
  <2> QED  BY ZenonT(60), <2>1, <2>2 DEF Asks
<1>6. /\ row'[c].saved = row[c].saved /\ row'[c].uid = row[c].uid
      /\ row[c].requested => row'[c].requested
      /\ row'[c].cleaned => row[c].cleaned \/ (row[c].requested /\ row[c].uid # 0 /\ ~secret'[c].owned)
      /\ ~row[c].saved => row'[c] = row[c]
  <2>1. row[c] \in RowType
    BY ZenonT(60), <1>1 DEF Types
  <2>2. row[c].requested => row[c].saved
    BY <1>1 DEF EntryInv, NoRow
  <2> QED  BY ZenonT(60), <1>5, <2>1, <2>2 DEF RowType
<1>7. Unborn(c)' => Unborn(c)
  BY <1>1, <1>2 DEF Unborn, Moves
<1>8. created[c] <= created'[c] /\ (secret'[c].owned => secret[c].owned)
      /\ (secret'[c] = secret[c] \/ (~secret'[c].owned /\ secret'[c].uid = 0)) /\ 0 <= created[c]
  BY <1>1, <1>3 DEF Types, NoSecret
<1>9. Grows(c)
  BY ZenonT(60), <1>1, <1>6, <1>7, <1>8 DEF Grows
<1>10. EntryInv(c)'
  BY ZenonT(60), <1>1, <1>2, <1>4, <1>6, <1>7, <1>8 DEF EntryInv, Moves, NoRow
<1>11. \A d \in Creds : row'[d].saved <=> row[d].saved
  BY ZenonT(60), <1>5, <1>6
<1> QED  BY ZenonT(60), <1>1, <1>2, <1>3, <1>4, <1>5, <1>9, <1>10, <1>11 DEF Same

\* A step that gives no object to a credential keeps the invariant when it
\* keeps the order of the journal and the cleanup that takes it.
LEMMA RemoveStep ==
  ASSUME IInv, NEW c \in Creds, NEW x, Moves(c, x), Asks(c), Projects(c), Removes(c),
         cred' \in [Creds -> {"NONE", "PENDING", "CONSUMED"}],
         expired' \in [Creds -> BOOLEAN], fenced' \in [Creds -> BOOLEAN], faults' \in Nat,
         (UNCHANGED <<due, later>>) \/ (row[c].saved /\ (RetryLater(c) \/ RetryNow(c))),
         clean' \in [Procs -> CleanType], \A p \in Procs : clean'[p] = clean[p] \/ CleanInv(p)'
  PROVE  IInv'
<1>1. Types /\ Places
  BY ZenonT(60) DEF IInv
<1>2. /\ pub' \in [Creds -> PubType] /\ row' \in [Creds -> RowType] /\ secret' \in [Creds -> SecretType]
      /\ \A d \in Creds : row'[d].saved <=> row[d].saved
      /\ pod' \in [Creds -> {"NO", "YES", "HELD"}]
      /\ \A d \in Creds \ {c} : Same(d)
      /\ Grows(c) /\ EntryInv(c)'
  BY ZenonT(60), MovesKeeps
<1>3. due' \in Seq(Creds) /\ later' \in Seq(Creds) /\ Places'
  <2>1. CASE UNCHANGED <<due, later>>
    <3>1. due' = due /\ later' = later
      BY ZenonT(60), <2>1
    <3> QED  BY ZenonT(60), <1>1, <1>2, <3>1 DEF Types, Places
  <2>2. CASE row[c].saved /\ (RetryLater(c) \/ RetryNow(c))
    BY ZenonT(60), <1>1, <1>2, <2>2, RetryKeepsPlaces
  <2> QED  BY ZenonT(60), <2>1, <2>2
<1>4. flight' = flight /\ created' = created
  BY ZenonT(60) DEF Removes
<1>5. Types'
  BY ZenonT(60), <1>1, <1>2, <1>3, <1>4 DEF Types
<1> QED  BY ZenonT(60), <1>2, <1>3, <1>5, StepKeeps

\* The same for a step that leaves the provider alone.
LEMMA MoveStep ==
  ASSUME IInv, NEW c \in Creds, NEW x, Moves(c, x), Asks(c), Projects(c), UNCHANGED provider,
         cred' \in [Creds -> {"NONE", "PENDING", "CONSUMED"}],
         expired' \in [Creds -> BOOLEAN], fenced' \in [Creds -> BOOLEAN], faults' \in Nat,
         (UNCHANGED <<due, later>>) \/ (row[c].saved /\ (RetryLater(c) \/ RetryNow(c))),
         clean' \in [Procs -> CleanType], \A p \in Procs : clean'[p] = clean[p] \/ CleanInv(p)'
  PROVE  IInv'
<1>1. Removes(c)
  BY ZenonT(60) DEF Removes, provider
<1> QED  BY ZenonT(60), <1>1, RemoveStep

\* A cleanup that rests or starts knows nothing yet.
LEMMA StartKeeps ==
  ASSUME Types, NEW p \in Procs, NEW v \in CleanType, clean' = [clean EXCEPT ![p] = v],
         v.at \in {"IDLE", "REQUEST"}, v.whole, p \in Creds => v.c = p,
         p \in Workers /\ v.at # "IDLE" => row'[v.c].saved,
         \A i \in DOMAIN v.batch : row'[v.batch[i]].saved
  PROVE  clean' \in [Procs -> CleanType] /\ \A q \in Procs : clean'[q] = clean[q] \/ CleanInv(q)'
<1>1. clean' \in [Procs -> CleanType] /\ clean'[p] = v /\ \A q \in Procs \ {p} : clean'[q] = clean[q]
  BY ZenonT(60) DEF Types
<1>2. CleanInv(p)'
  BY ZenonT(60), <1>1 DEF CleanInv
<1> QED  BY ZenonT(60), <1>1, <1>2

\* The fields of a cleanup that rests or starts.
LEMMA RestingIs ==
  ASSUME NEW c \in Creds
  PROVE  /\ Resting(c) \in CleanType /\ Resting(c).at = "IDLE" /\ Resting(c).c = c /\ Resting(c).whole
         /\ Resting(c).batch = <<>>
         /\ [Resting(c) EXCEPT !.at = "REQUEST"] \in CleanType
         /\ [Resting(c) EXCEPT !.at = "REQUEST"].at = "REQUEST"
         /\ [Resting(c) EXCEPT !.at = "REQUEST"].c = c
         /\ [Resting(c) EXCEPT !.at = "REQUEST"].whole
         /\ [Resting(c) EXCEPT !.at = "REQUEST"].batch = <<>>
<1>1. NoSecret \in SecretType /\ <<>> \in Seq(Creds)
  BY DEF NoSecret, SecretType
<1> QED  BY ZenonT(60), <1>1 DEF Resting, CleanType

\* A resting worker names a credential.
LEMMA AnyCredIs == AnyCred \in Creds
  BY DeliveryAssumption DEF AnyCred

-----------------------------------------------------------------------------
(* Materialization *)

\* A step that leaves cleanups and the order of the journal alone.
LEMMA PlainStep ==
  ASSUME IInv, NEW c \in Creds, NEW x, Moves(c, x), Projects(c), UNCHANGED <<journal, provider, clean>>,
         cred' \in [Creds -> {"NONE", "PENDING", "CONSUMED"}],
         expired' \in [Creds -> BOOLEAN], fenced' \in [Creds -> BOOLEAN], faults' \in Nat
  PROVE  IInv'
<1>1. row' = row /\ (UNCHANGED <<due, later>>) /\ (UNCHANGED provider) /\ clean' = clean
  BY ZenonT(60) DEF journal
<1>2. clean' \in [Procs -> CleanType] /\ \A p \in Procs : clean'[p] = clean[p] \/ CleanInv(p)'
  BY ZenonT(60), <1>1 DEF IInv, Types
<1>3. Asks(c)
  BY ZenonT(60), <1>1 DEF Asks
<1> QED  BY ZenonT(60), <1>1, <1>2, <1>3, MoveStep

\* Materialize fails.
LEMMA FailStep ==
  ASSUME IInv, NEW c \in Creds, StartCleanup(c), Asks(c), Projects(c), UNCHANGED provider,
         cred' \in [Creds -> {"NONE", "PENDING", "CONSUMED"}],
         expired' \in [Creds -> BOOLEAN], fenced' \in [Creds -> BOOLEAN], faults' \in Nat,
         (UNCHANGED <<due, later>>) \/ (row[c].saved /\ (RetryLater(c) \/ RetryNow(c)))
  PROVE  IInv'
<1> DEFINE v == [Resting(c) EXCEPT !.at = "REQUEST"]
<1>1. pub' = [pub EXCEPT ![c].at = "FAILED"] /\ clean' = [clean EXCEPT ![c] = v]
  BY ZenonT(60) DEF StartCleanup, At
<1>2. /\ v \in CleanType /\ v.at = "REQUEST" /\ v.whole /\ v.c = c /\ v.batch = <<>>
      /\ c \in Procs /\ c \notin Workers
  BY ZenonT(60), RestingIs, DeliveryAssumption DEF Procs
<1> HIDE DEF v
<1>3. \A i \in DOMAIN v.batch : row'[v.batch[i]].saved
  BY <1>2
<1>4. clean' \in [Procs -> CleanType] /\ \A p \in Procs : clean'[p] = clean[p] \/ CleanInv(p)'
  BY ZenonT(60), <1>1, <1>2, <1>3, StartKeeps DEF IInv
<1>5. Moves(c, "FAILED")
  BY <1>1 DEF Moves, States, Journaled
<1> QED  BY ZenonT(60), <1>4, <1>5, MoveStep

\* Faults are counted.
LEMMA FaultIs ==
  ASSUME IInv, Fault
  PROVE  faults' \in Nat
  BY DEF IInv, Types, Fault

\* The registry keeps its types when it is left alone.
LEMMA RegistryKept ==
  ASSUME IInv, UNCHANGED registry
  PROVE  /\ cred' \in [Creds -> {"NONE", "PENDING", "CONSUMED"}]
         /\ expired' \in [Creds -> BOOLEAN] /\ fenced' \in [Creds -> BOOLEAN]
  BY ZenonT(60) DEF IInv, Types, registry

\* An interruption counts as a fault or not at all.
LEMMA InterruptedIs ==
  ASSUME IInv, NEW c \in Creds, Interrupted(c)
  PROVE  faults' \in Nat
  BY FaultIs DEF IInv, Types, Interrupted

\* The steps of a materialization that neither write the journal nor make an
\* object.
LEMMA PublishKeeps ==
  ASSUME IInv, NEW c \in Creds,
         \/ Issue(c) \/ Authorize(c) \/ LoadDelivery(c) \/ CheckBefore(c)
         \/ Confirm(c) \/ Resolve(c) \/ Project(c) \/ PublishFails(c)
  PROVE  IInv'
<1>0. Types /\ EntryInv(c) /\ faults \in Nat
  BY ZenonT(60) DEF IInv, Types
<1>1. CASE Issue(c)
  <2>1. cred' \in [Creds -> {"NONE", "PENDING", "CONSUMED"}] /\ expired' = expired /\ fenced' = fenced
    BY ZenonT(60), <1>0, <1>1 DEF Issue, Types
  <2>2. Moves(c, "AUTHORIZE")
    BY <1>0, <1>1 DEF Issue, At, Moves, States, Journaled, EntryInv
  <2>3. /\ Projects(c) /\ (UNCHANGED <<journal, provider, clean>>) /\ faults' = faults
        /\ expired' \in [Creds -> BOOLEAN] /\ fenced' \in [Creds -> BOOLEAN]
    BY ZenonT(60), <1>0, <1>1, <2>1 DEF Issue, Projects, Types
  <2> QED  BY ZenonT(60), <1>0, <2>1, <2>2, <2>3, PlainStep
<1>2. CASE Authorize(c)
  <2>1. /\ (UNCHANGED registry) /\ (UNCHANGED <<journal, provider>>) /\ Projects(c) /\ Asks(c)
        /\ (UNCHANGED <<due, later>>) /\ faults' = faults
    BY ZenonT(60), <1>2 DEF Authorize, journal, Projects, Asks
  <2>2. CASE StartCleanup(c)
    BY ZenonT(60), <1>0, <2>1, <2>2, RegistryKept, FailStep
  <2>3. CASE At(c, "PLAN") /\ UNCHANGED clean
    <3>1. Moves(c, "PLAN")
      BY <1>0, <1>2, <2>3 DEF Authorize, At, Moves, States, Journaled, EntryInv
    <3> QED  BY ZenonT(60), <1>0, <2>1, <2>3, <3>1, RegistryKept, PlainStep
  <2> QED  BY ZenonT(60), <1>2, <2>2, <2>3 DEF Authorize
<1>3. CASE LoadDelivery(c) \/ CheckBefore(c)
  <2>1. /\ (UNCHANGED registry) /\ (UNCHANGED <<journal, provider, clean>>) /\ Projects(c) /\ faults' = faults
    BY ZenonT(60), <1>3 DEF LoadDelivery, CheckBefore, Projects
  <2>2. \E x \in {"UNDO", "CHECK", "CREATE"} : Moves(c, x)
    BY <1>0, <1>3 DEF LoadDelivery, CheckBefore, At, Moves, States, Journaled, EntryInv
  <2> QED  BY ZenonT(60), <1>0, <2>1, <2>2, RegistryKept, PlainStep
<1>4. CASE Confirm(c) \/ Resolve(c)
  <2>1. /\ (UNCHANGED registry) /\ (UNCHANGED <<journal, provider, clean>>) /\ Projects(c) /\ faults' = faults
    BY ZenonT(60), <1>4 DEF Confirm, Resolve, Projects
  <2>2. \E x \in {"UNDO", "RESOLVE", "PROJECT"} : Moves(c, x)
    BY <1>0, <1>4 DEF Confirm, Resolve, At, Moves, States, Journaled, EntryInv
  <2> QED  BY ZenonT(60), <1>0, <2>1, <2>2, RegistryKept, PlainStep
<1>5. CASE Project(c)
  <2>1. row[c].uid # 0
    BY ZenonT(60), <1>0, <1>5 DEF Project, EntryInv
  <2>2. /\ (UNCHANGED registry) /\ (UNCHANGED <<journal, provider>>) /\ Projects(c) /\ Asks(c)
        /\ (UNCHANGED <<due, later>>)
    BY ZenonT(60), <1>5, <2>1 DEF Project, Projects, Asks, journal
  <2>3. CASE At(c, "DONE") /\ UNCHANGED <<clean, faults>>
    <3>1. Moves(c, "DONE")
      BY <1>0, <1>5, <2>3 DEF Project, At, Moves, States, Journaled, EntryInv
    <3> QED  BY ZenonT(60), <1>0, <2>2, <2>3, <3>1, RegistryKept, PlainStep
  <2>4. CASE Interrupted(c) /\ StartCleanup(c)
    BY ZenonT(60), <2>2, <2>4, RegistryKept, FailStep, InterruptedIs
  <2> QED  BY ZenonT(60), <1>5, <2>3, <2>4 DEF Project
<1>6. CASE PublishFails(c)
  <2>1. /\ (UNCHANGED registry) /\ (UNCHANGED <<journal, provider>>) /\ Projects(c) /\ Asks(c)
        /\ (UNCHANGED <<due, later>>) /\ faults' \in Nat
    BY ZenonT(60), <1>6, InterruptedIs DEF PublishFails, Projects, Asks, journal
  <2>2. CASE pub[c].at \in Journaled /\ At(c, "UNDO") /\ UNCHANGED clean
    <3>1. Moves(c, "UNDO")
      BY <1>0, <2>2 DEF At, Moves, States, Journaled, EntryInv
    <3> QED  BY ZenonT(60), <2>1, <2>2, <3>1, RegistryKept, PlainStep
  <2>3. CASE StartCleanup(c)
    BY ZenonT(60), <2>1, <2>3, RegistryKept, FailStep
  <2> QED  BY ZenonT(60), <1>6, <2>2, <2>3 DEF PublishFails
<1> QED  BY ZenonT(60), <1>1, <1>2, <1>3, <1>4, <1>5, <1>6

\* Publish asks for the cleanup of its plan.
LEMMA UndoKeeps ==
  ASSUME IInv, NEW c \in Creds, Undo(c)
  PROVE  IInv'
<1>1. (UNCHANGED <<registry, provider, pod>>) /\ StartCleanup(c) /\ Projects(c)
  BY ZenonT(60) DEF Undo, Projects
<1>2. CASE RequestCleanup(c) /\ UNCHANGED faults
  <2>1. Asks(c) /\ row[c].saved /\ RetryLater(c) /\ faults' \in Nat
    BY ZenonT(60), <1>2 DEF RequestCleanup, Asks, IInv, Types
  <2> QED  BY ZenonT(60), <1>1, <2>1, RegistryKept, FailStep
<1>3. CASE Fault /\ UNCHANGED journal
  <2>1. Asks(c) /\ UNCHANGED <<due, later>>
    BY ZenonT(60), <1>3 DEF journal, Asks
  <2> QED  BY ZenonT(60), <1>1, <1>3, <2>1, RegistryKept, FailStep, FaultIs
<1> QED  BY ZenonT(60), <1>2, <1>3 DEF Undo

\* The end of a process leaves its entry to the sweeps.
LEMMA CrashKeeps ==
  ASSUME IInv, NEW c \in Creds, Crash(c)
  PROVE  IInv'
<1> DEFINE v == Resting(c)
<1>1. /\ (UNCHANGED <<registry, journal, provider, pod>>) /\ faults' \in Nat
      /\ pub' = [pub EXCEPT ![c].at = "ENDED"] /\ clean' = [clean EXCEPT ![c] = v]
  BY ZenonT(60), FaultIs DEF Crash, At
<1>2. v \in CleanType /\ v.at = "IDLE" /\ v.whole /\ v.c = c /\ v.batch = <<>> /\ c \in Procs
  BY ZenonT(60), RestingIs DEF Procs
<1> HIDE DEF v
<1>3. \A i \in DOMAIN v.batch : row'[v.batch[i]].saved
  BY <1>2
<1>4. clean' \in [Procs -> CleanType] /\ \A p \in Procs : clean'[p] = clean[p] \/ CleanInv(p)'
  BY ZenonT(60), <1>1, <1>2, <1>3, StartKeeps DEF IInv
<1>5. Moves(c, "ENDED")
  BY <1>1 DEF Moves, States, Journaled
<1>6. Projects(c) /\ Asks(c) /\ UNCHANGED <<due, later>>
  BY ZenonT(60), <1>1 DEF journal, Projects, Asks
<1> QED  BY ZenonT(60), <1>1, <1>4, <1>5, <1>6, MoveStep, RegistryKept

\* A withdrawal starts with the object that was just created.
LEMMA CheckAfterKeeps ==
  ASSUME IInv, NEW c \in Creds, CheckAfter(c)
  PROVE  IInv'
<1>0. Types /\ EntryInv(c) /\ faults \in Nat /\ pub[c].at = "RECHECK"
  BY ZenonT(60) DEF IInv, Types, CheckAfter
<1>1. (UNCHANGED <<registry, journal, provider, pod>>) /\ Projects(c) /\ Asks(c) /\ UNCHANGED <<due, later>>
  BY ZenonT(60) DEF CheckAfter, Projects, Asks, journal
<1>2. CASE At(c, "BIND") /\ UNCHANGED <<clean, faults>>
  <2>1. Moves(c, "BIND")
    BY <1>0, <1>2 DEF At, Moves, States, Journaled, EntryInv
  <2> QED  BY ZenonT(60), <1>0, <1>1, <1>2, <2>1, RegistryKept, PlainStep
<1> DEFINE v == [Resting(c) EXCEPT !.at = "GET", !.ref = pub[c].ref, !.whole = FALSE]
<1>3. CASE faults' \in Nat /\ At(c, "WITHDRAW") /\ clean' = [clean EXCEPT ![c] = v]
  <2>1. Moves(c, "WITHDRAW") /\ row[c].saved /\ pub[c].ref # 0 /\ c \notin flight
    BY <1>0, <1>3 DEF At, Moves, States, Journaled, EntryInv
  <2>2. v \in CleanType /\ v.at = "GET" /\ v.c = c /\ v.ref = pub[c].ref /\ v.batch = <<>>
    <3>1. NoSecret \in SecretType /\ <<>> \in Seq(Creds)
      BY DEF NoSecret, SecretType
    <3>2. pub[c].ref \in Nat
      BY <1>0 DEF Types, PubType
    <3> QED  BY ZenonT(60), <3>1, <3>2 DEF Resting, CleanType
  <2> HIDE DEF v
  <2>3. /\ clean' \in [Procs -> CleanType] /\ clean'[c] = v
        /\ c \in Procs /\ c \notin Workers /\ \A p \in Procs \ {c} : clean'[p] = clean[p]
    BY ZenonT(60), <1>0, <1>3, <2>2, DeliveryAssumption DEF Types, Procs
  <2>4. pub'[c].at = "WITHDRAW" /\ row' = row /\ flight' = flight
    BY ZenonT(60), <1>1, <2>1, MovesKeeps DEF journal, provider, Removes
  <2>5. \A i \in DOMAIN v.batch : row'[v.batch[i]].saved
    BY <2>2
  <2>6. ~Unborn(c)'
    BY <2>1, <2>4 DEF Unborn
  <2>7. CleanInv(c)'
    BY <2>1, <2>2, <2>3, <2>4, <2>5, <2>6 DEF CleanInv
  <2> QED  BY ZenonT(60), <1>1, <1>3, <2>1, <2>3, <2>7, MoveStep, RegistryKept
<1> QED  BY ZenonT(60), <1>0, <1>2, <1>3, FaultIs DEF CheckAfter

\* SavePlan gives the entry its first place.
LEMMA SavePlanKeeps ==
  ASSUME IInv, NEW c \in Creds, SavePlan(c)
  PROVE  IInv'
<1>0. Types /\ Places /\ EntryInv(c) /\ faults \in Nat /\ pub[c].at = "PLAN" /\ (UNCHANGED <<registry, provider, pod>>)
  BY ZenonT(60) DEF IInv, Types, SavePlan
<1>1. CASE StartCleanup(c) /\ UNCHANGED <<journal, faults>>
  <2>1. Asks(c) /\ Projects(c) /\ UNCHANGED <<due, later>>
    BY ZenonT(60), <1>0, <1>1 DEF journal, Asks, Projects
  <2> QED  BY ZenonT(60), <1>0, <1>1, <2>1, RegistryKept, FailStep
<1>2. CASE /\ ~row[c].saved /\ row' = [row EXCEPT ![c].saved = TRUE]
           /\ due' = Append(due, c) /\ later' = later
           /\ \/ At(c, "LOAD") /\ UNCHANGED <<clean, faults>>
              \/ Fault /\ StartCleanup(c)
  <2>1. c \notin Range(due) /\ c \notin Range(later) /\ c \notin flight
    BY ZenonT(60), <1>0, <1>2 DEF Places, EntryInv
  <2>2. /\ due' \in Seq(Creds) /\ IsInjective(due') /\ Range(due') = Range(due) \cup {c}
        /\ later' = later /\ later \in Seq(Creds)
    BY ZenonT(60), <1>0, <1>2, <2>1, AppendPlaces DEF Types, Places
  <2>3. /\ row' \in [Creds -> RowType] /\ \A d \in Creds \ {c} : row'[d] = row[d]
        /\ row'[c] = [row[c] EXCEPT !.saved = TRUE] /\ row[c] \in RowType
    <3>1. row \in [Creds -> RowType] /\ row[c] \in RowType
      BY ZenonT(60), <1>0 DEF Types
    <3>2. [row[c] EXCEPT !.saved = TRUE] \in RowType
      BY ZenonT(60), <3>1, RowUpdated
    <3> QED  BY ZenonT(60), <1>2, <3>1, <3>2
  <2>4. /\ row'[c].saved /\ row'[c].uid = row[c].uid /\ row'[c].requested = row[c].requested
        /\ row'[c].cleaned = row[c].cleaned
    BY ZenonT(60), <2>3 DEF RowType
  <2>5. Places'
    BY ZenonT(60), <1>0, <2>1, <2>2, <2>3, <2>4 DEF Places
  <2>6. PICK x \in {"LOAD", "FAILED"} : pub' = [pub EXCEPT ![c].at = x]
    BY ZenonT(60), <1>2 DEF At, StartCleanup
  <2>7. /\ pub' \in [Creds -> PubType] /\ pub'[c].at = x /\ pub'[c].ref = pub[c].ref
        /\ \A d \in Creds \ {c} : pub'[d] = pub[d]
    <3>1. pub \in [Creds -> PubType] /\ pub[c] \in PubType /\ x \in States
      BY ZenonT(60), <1>0 DEF Types, States
    <3> QED  BY ZenonT(60), <2>6, <3>1, PubUpdated
  <2>8. /\ clean' \in [Procs -> CleanType] /\ faults' \in Nat
        /\ \A p \in Procs : clean'[p] = clean[p] \/ CleanInv(p)'
    <3>1. CASE UNCHANGED <<clean, faults>>
      BY ZenonT(60), <1>0, <3>1 DEF Types
    <3>2. CASE Fault /\ StartCleanup(c)
      <4> DEFINE v == [Resting(c) EXCEPT !.at = "REQUEST"]
      <4>1. /\ v \in CleanType /\ v.at = "REQUEST" /\ v.whole /\ v.c = c /\ v.batch = <<>>
            /\ c \in Procs /\ c \notin Workers /\ clean' = [clean EXCEPT ![c] = v]
        BY ZenonT(60), <3>2, RestingIs, DeliveryAssumption DEF Procs, StartCleanup
      <4> HIDE DEF v
      <4>2. \A i \in DOMAIN v.batch : row'[v.batch[i]].saved
        BY <4>1
      <4> QED  BY ZenonT(60), <1>0, <3>2, <4>1, <4>2, StartKeeps, FaultIs
    <3> QED  BY ZenonT(60), <1>2, <3>1, <3>2
  <2>9. (UNCHANGED <<secret, flight, created>>) /\ pod' = pod
    BY ZenonT(60), <1>0 DEF provider
  <2>10. Types'
    BY ZenonT(60), <1>0, <2>2, <2>3, <2>7, <2>8, <2>9, RegistryKept DEF Types
  <2>11. Unborn(c) /\ (Unborn(c)' => ~secret[c].owned /\ row[c].uid = 0)
    BY ZenonT(60), <1>0 DEF Unborn, EntryInv
  <2>12. Grows(c)
    BY <1>0, <2>4, <2>9, <2>11 DEF Grows, Types
  <2>13. EntryInv(c)'
    <3>1. row[c] = NoRow /\ ~row[c].cleaned
      BY <1>0, <1>2 DEF EntryInv, NoRow
    <3> QED  BY <1>0, <2>1, <2>4, <2>7, <2>9, <2>11, <3>1 DEF EntryInv, Journaled
  <2>14. \A d \in Creds \ {c} : Same(d)
    BY ZenonT(60), <2>3, <2>7, <2>9 DEF Same
  <2> QED  BY ZenonT(60), <2>5, <2>8, <2>10, <2>12, <2>13, <2>14, StepKeeps
<1> QED  BY ZenonT(60), <1>1, <1>2 DEF SavePlan

\* The first object under the name is the credential's only one.
LEMMA CreateKeeps ==
  ASSUME IInv, NEW c \in Creds, Create(c)
  PROVE  IInv'
<1> DEFINE found == IF secret[c].uid = 0 THEN Fresh(c) ELSE secret[c]
<1>0. /\ Types /\ Places /\ EntryInv(c) /\ pub[c].at = "CREATE"
      /\ (UNCHANGED <<registry, journal, flight, clean, pod, faults>>)
      /\ secret' = [secret EXCEPT ![c] = found]
      /\ created' = [created EXCEPT ![c] = IF secret[c].uid = 0 THEN created[c] + 1 ELSE created[c]]
      /\ pub' = [pub EXCEPT ![c] = [pub[c] EXCEPT !.at = IF found.owned THEN "RECHECK" ELSE "UNDO",
                                                  !.ref = IF found.owned THEN found.uid ELSE 0]]
  BY ZenonT(60) DEF IInv, Create
<1>1. /\ secret[c] \in SecretType /\ created[c] \in Nat /\ pub[c] \in PubType
      /\ secret[c].uid \in Nat /\ secret[c].owned \in BOOLEAN
  BY <1>0 DEF Types, SecretType
<1>2. /\ ~secret[c].owned /\ row[c].uid = 0 /\ row[c].saved /\ ~row[c].cleaned /\ c \notin flight
      /\ Unborn(c)
  BY <1>0 DEF EntryInv, Unborn
<1>3. found \in SecretType /\ found.uid \in Nat
  BY <1>1 DEF Fresh, SecretType
<1>4. IF secret[c].uid = 0 THEN found.uid = created[c] + 1 /\ found.owned
                           ELSE found = secret[c]
  BY <1>1 DEF Fresh
<1> HIDE DEF found
<1>5. /\ secret' \in [Creds -> SecretType] /\ secret'[c] = found
      /\ \A d \in Creds \ {c} : secret'[d] = secret[d]
  BY ZenonT(60), <1>0, <1>3 DEF Types
<1>6. /\ created' \in [Creds -> Nat] /\ created[c] <= created'[c] /\ found.uid <= created'[c]
      /\ \A d \in Creds \ {c} : created'[d] = created[d]
  BY <1>0, <1>1, <1>3, <1>4 DEF Types, EntryInv
<1> DEFINE x == IF found.owned THEN "RECHECK" ELSE "UNDO"
           u == IF found.owned THEN found.uid ELSE 0
<1>7. x \in {"RECHECK", "UNDO"} /\ u \in Nat /\ u <= created'[c] /\ (x = "RECHECK" => u # 0)
  BY <1>1, <1>3, <1>4, <1>6
<1>8. pub' = [pub EXCEPT ![c] = [pub[c] EXCEPT !.at = x, !.ref = u]]
  BY ZenonT(60), <1>0
<1>9. found.owned => found.uid # 0
  BY <1>1, <1>2, <1>4
<1> HIDE DEF x, u
<1>10. /\ pub' \in [Creds -> PubType] /\ pub'[c].at = x /\ pub'[c].ref = u
       /\ \A d \in Creds \ {c} : pub'[d] = pub[d]
  <2>1. pub \in [Creds -> PubType] /\ x \in States
    BY ZenonT(60), <1>0, <1>7 DEF Types, States
  <2>2. /\ [pub[c] EXCEPT !.at = x, !.ref = u] \in PubType
        /\ [pub[c] EXCEPT !.at = x, !.ref = u].at = x /\ [pub[c] EXCEPT !.at = x, !.ref = u].ref = u
    BY ZenonT(60), <1>1, <1>7, <2>1 DEF PubType
  <2> QED  BY ZenonT(60), <1>8, <2>1, <2>2
<1>11. /\ row' = row /\ due' = due /\ later' = later /\ flight' = flight /\ clean' = clean
       /\ pod' = pod /\ faults' = faults
  BY ZenonT(60), <1>0 DEF journal
<1>12. Types'
  BY ZenonT(60), <1>0, <1>5, <1>6, <1>10, <1>11, RegistryKept DEF Types
<1>13. ~Unborn(c)'
  BY <1>2, <1>7, <1>10, <1>11 DEF Unborn
<1>14. Grows(c) /\ Places'
  BY ZenonT(60), <1>0, <1>2, <1>6, <1>11, <1>13 DEF Grows, Places
<1>15. EntryInv(c)'
  BY <1>0, <1>1, <1>2, <1>5, <1>6, <1>7, <1>9, <1>10, <1>11, <1>13 DEF EntryInv, Journaled
<1>16. \A d \in Creds \ {c} : Same(d)
  BY ZenonT(60), <1>5, <1>6, <1>10, <1>11 DEF Same
<1> QED  BY ZenonT(60), <1>11, <1>12, <1>14, <1>15, <1>16, StepKeeps

\* A create that is given up is still ahead.
LEMMA CreateLostKeeps ==
  ASSUME IInv, NEW c \in Creds, CreateLost(c)
  PROVE  IInv'
<1>0. /\ Types /\ Places /\ EntryInv(c) /\ pub[c].at = "CREATE" /\ faults' \in Nat
      /\ UNCHANGED <<registry, journal, secret, created, clean, pod>>
      /\ flight' = flight \cup {c} /\ pub' = [pub EXCEPT ![c].at = "UNDO"]
  BY ZenonT(60), InterruptedIs DEF IInv, CreateLost, At
<1>1. /\ pub' \in [Creds -> PubType] /\ pub'[c].at = "UNDO" /\ pub'[c].ref = pub[c].ref
      /\ \A d \in Creds \ {c} : pub'[d] = pub[d]
  <2>1. pub \in [Creds -> PubType] /\ pub[c] \in PubType /\ "UNDO" \in States
    BY ZenonT(60), <1>0 DEF Types, States
  <2> QED  BY ZenonT(60), <1>0, <2>1, PubUpdated
<1>2. /\ row' = row /\ due' = due /\ later' = later /\ secret' = secret /\ created' = created
      /\ clean' = clean /\ pod' = pod
  BY ZenonT(60), <1>0 DEF journal
<1>3. Types' /\ Places'
  BY ZenonT(60), <1>0, <1>1, <1>2, RegistryKept DEF Types, Places
<1>4. Unborn(c) /\ ~secret[c].owned /\ row[c].uid = 0 /\ row[c].saved
  BY <1>0 DEF EntryInv, Unborn
<1>5. Grows(c)
  BY <1>0, <1>2, <1>4 DEF Grows, Types
<1>6. EntryInv(c)'
  BY <1>0, <1>1, <1>2, <1>4 DEF EntryInv, Journaled
<1>7. \A d \in Creds \ {c} : Same(d)
  BY ZenonT(60), <1>0, <1>1, <1>2 DEF Same
<1> QED  BY ZenonT(60), <1>2, <1>3, <1>5, <1>6, <1>7, StepKeeps

\* BindSecret, for a materialization or a cleanup that has an object.
LEMMA BindKeeps ==
  ASSUME IInv, NEW c \in Creds, NEW u \in Nat, u # 0, u <= created[c], Bindable(c, u), ~Unborn(c), row[c].saved,
         row' = [row EXCEPT ![c].uid = u], UNCHANGED <<registry, due, later, provider, pod, faults>>,
         pub' = pub \/ (pub[c].at = "BIND" /\ pub' = [pub EXCEPT ![c].at = "CONFIRM"]),
         clean' \in [Procs -> CleanType], \A p \in Procs : clean'[p] = clean[p] \/ CleanInv(p)'
  PROVE  IInv' /\ row'[c].saved /\ ~Unborn(c)'
<1>0. /\ Types /\ Places /\ EntryInv(c) /\ (UNCHANGED <<secret, flight, created>>)
      /\ due' = due /\ later' = later /\ pod' = pod /\ faults' = faults
  BY ZenonT(60) DEF IInv, provider
<1>1. /\ row' \in [Creds -> RowType] /\ row[c] \in RowType /\ row'[c] = [row[c] EXCEPT !.uid = u]
      /\ \A d \in Creds \ {c} : row'[d] = row[d]
  <2>1. row \in [Creds -> RowType] /\ row[c] \in RowType
    BY ZenonT(60), <1>0 DEF Types
  <2>2. [row[c] EXCEPT !.uid = u] \in RowType
    BY ZenonT(60), <2>1, RowUpdated
  <2> QED  BY ZenonT(60), <2>1, <2>2
<1>2. /\ row'[c].saved = row[c].saved /\ row'[c].uid = u /\ row'[c].requested = row[c].requested
      /\ row'[c].cleaned = row[c].cleaned
  BY ZenonT(60), <1>1 DEF RowType
<1>3. /\ pub' \in [Creds -> PubType] /\ pub'[c].ref = pub[c].ref
      /\ pub'[c].at = pub[c].at \/ (pub[c].at = "BIND" /\ pub'[c].at = "CONFIRM")
      /\ \A d \in Creds \ {c} : pub'[d] = pub[d]
  <2>1. pub \in [Creds -> PubType] /\ pub[c] \in PubType /\ "CONFIRM" \in States
    BY ZenonT(60), <1>0 DEF Types, States
  <2>2. CASE pub' = pub
    BY ZenonT(60), <2>1, <2>2
  <2>3. CASE pub[c].at = "BIND" /\ pub' = [pub EXCEPT ![c].at = "CONFIRM"]
    BY ZenonT(60), <2>1, <2>3, PubUpdated
  <2> QED  BY ZenonT(60), <2>2, <2>3
<1>4. Types'
  BY ZenonT(60), <1>0, <1>1, <1>3, RegistryKept DEF Types
<1>5. Places'
  BY ZenonT(60), <1>0, <1>1, <1>2 DEF Places
<1>6. ~Unborn(c)'
  BY <1>0, <1>3 DEF Unborn
<1>7. Grows(c)
  BY <1>0, <1>2, <1>6 DEF Grows, Types
<1>8. EntryInv(c)'
  <2>1. row'[c].uid <= created'[c] /\ ~row'[c].cleaned
    BY ZenonT(60), <1>0, <1>2 DEF Bindable
  <2> QED  BY <1>0, <1>2, <1>3, <1>6, <2>1 DEF EntryInv, Journaled
<1>9. \A d \in Creds \ {c} : Same(d)
  BY ZenonT(60), <1>0, <1>1, <1>3 DEF Same
<1>10. IInv'
  BY ZenonT(60), <1>4, <1>5, <1>7, <1>8, <1>9, StepKeeps
<1> QED  BY ZenonT(60), <1>2, <1>6, <1>10

\* BindSecret of a materialization.
LEMMA BindPublishedKeeps ==
  ASSUME IInv, NEW c \in Creds, BindPublished(c)
  PROVE  IInv'
<1>0. /\ Types /\ EntryInv(c) /\ pub[c].at = "BIND" /\ PublishBind(c)
      /\ (UNCHANGED registry) /\ (UNCHANGED <<due, later, provider, clean, pod, faults>>)
  BY ZenonT(60) DEF IInv, BindPublished
<1>1. pub[c].ref \in Nat /\ pub[c].ref # 0 /\ pub[c].ref <= created[c] /\ row[c].saved /\ c \notin flight
  BY <1>0 DEF EntryInv, Types, PubType, Journaled
<1>2. ~Unborn(c)
  BY <1>0, <1>1 DEF Unborn
<1>3. CASE Bindable(c, pub[c].ref)
  <2>1. row' = [row EXCEPT ![c].uid = pub[c].ref] /\ pub' = [pub EXCEPT ![c].at = "CONFIRM"]
    BY ZenonT(60), <1>0, <1>3 DEF PublishBind, At
  <2>2. clean' \in [Procs -> CleanType] /\ (\A p \in Procs : clean'[p] = clean[p] \/ CleanInv(p)')
        /\ UNCHANGED <<registry, due, later, provider, pod, faults>>
    BY ZenonT(60), <1>0 DEF Types
  <2> QED  BY ZenonT(60), <1>0, <1>1, <1>2, <1>3, <2>1, <2>2, BindKeeps
<1>4. CASE ~Bindable(c, pub[c].ref)
  <2>1. At(c, "UNDO") /\ row' = row
    BY ZenonT(60), <1>0, <1>4 DEF PublishBind
  <2>2. Moves(c, "UNDO")
    BY <1>0, <1>1, <2>1 DEF At, Moves, States, Journaled, EntryInv
  <2>3. /\ Projects(c) /\ (UNCHANGED <<journal, provider, clean>>) /\ faults' \in Nat
    BY ZenonT(60), <1>0, <2>1 DEF Projects, journal, Types
  <2> QED  BY ZenonT(60), <1>0, <2>2, <2>3, RegistryKept, PlainStep
<1> QED  BY ZenonT(60), <1>3, <1>4

-----------------------------------------------------------------------------
(* Cleanup *)

\* A step that leaves the materializations alone.
LEMMA StaysMoves ==
  ASSUME IInv, NEW c \in Creds, pub' = pub
  PROVE  Moves(c, pub[c].at)
<1>1. pub \in [Creds -> PubType] /\ pub[c] \in PubType /\ EntryInv(c) /\ pub[c].at \in States
  BY ZenonT(60) DEF IInv, Types, PubType
<1>2. [pub[c] EXCEPT !.at = pub[c].at] = pub[c]
  BY ZenonT(60), <1>1 DEF PubType
<1>3. [pub EXCEPT ![c].at = pub[c].at] = pub
  BY ZenonT(60), <1>1, <1>2
<1> QED  BY ZenonT(60), <1>1, <1>3 DEF Moves, EntryInv

\* An entry of the journal stays in it.
LEMMA AsksKeepsSaved ==
  ASSUME IInv, NEW c \in Creds, Asks(c)
  PROVE  \A d \in Creds : row[d].saved => row'[d].saved
<1>1. row \in [Creds -> RowType] /\ row[c] \in RowType
  BY ZenonT(60) DEF IInv, Types
<1>2. [row[c] EXCEPT !.requested = TRUE].saved = row[c].saved /\ [row[c] EXCEPT !.cleaned = TRUE].saved = row[c].saved
  BY ZenonT(60), <1>1 DEF RowType
<1> QED  BY ZenonT(60), <1>1, <1>2 DEF Asks

\* What the end of a cleanup leaves: a materialization that has failed or goes
\* on to fail, or a worker that rests or goes on with its next entry.
LEMMA EndKeeps ==
  ASSUME IInv, NEW p \in Procs, End(p), \A d \in Creds : row[d].saved => row'[d].saved
  PROVE  /\ \E x \in States : Moves(clean[p].c, x)
         /\ clean' \in [Procs -> CleanType] /\ \A q \in Procs : clean'[q] = clean[q] \/ CleanInv(q)'
<1>0. /\ Types /\ CleanInv(p) /\ clean[p] \in CleanType /\ clean[p].c \in Creds
      /\ clean[p].batch \in Seq(Creds) /\ clean \in [Procs -> CleanType]
  BY ZenonT(60) DEF IInv, Types, CleanType
<1>1. CASE p \in Workers
  <2>1. pub' = pub /\ p \notin Creds /\ \A i \in DOMAIN clean[p].batch : row[clean[p].batch[i]].saved
    BY ZenonT(60), <1>0, <1>1, DeliveryAssumption DEF End, CleanInv
  <2>2. \E x \in States : Moves(clean[p].c, x)
    <3>1. pub[clean[p].c].at \in States
      BY ZenonT(60), <1>0 DEF Types, PubType
    <3> QED  BY ZenonT(60), <1>0, <2>1, <3>1, StaysMoves
  <2>3. CASE clean[p].batch = <<>>
    <3> DEFINE v == Resting(AnyCred)
    <3>1. clean' = [clean EXCEPT ![p] = v]
      BY ZenonT(60), <1>0, <1>1, <2>3 DEF End
    <3>2. v \in CleanType /\ v.at = "IDLE" /\ v.whole /\ v.batch = <<>>
      BY ZenonT(60), RestingIs, AnyCredIs
    <3> HIDE DEF v
    <3>3. \A i \in DOMAIN v.batch : row'[v.batch[i]].saved
      BY <3>2
    <3> QED  BY ZenonT(60), <1>0, <2>1, <2>2, <3>1, <3>2, <3>3, StartKeeps
  <2>4. CASE clean[p].batch # <<>>
    <3> DEFINE b == clean[p].batch
               v == [Resting(Head(b)) EXCEPT !.at = "REQUEST", !.batch = Tail(b)]
    <3>1. clean' = [clean EXCEPT ![p] = v]
      BY ZenonT(60), <1>0, <1>1, <2>4 DEF End
    <3>2. b \in Seq(Creds) /\ b # <<>> /\ \A i \in DOMAIN b : row[b[i]].saved
      BY ZenonT(60), <1>0, <2>1, <2>4
    <3> HIDE DEF b
    <3>3. /\ Head(b) \in Creds /\ Tail(b) \in Seq(Creds) /\ row[Head(b)].saved
          /\ \A i \in DOMAIN Tail(b) : Tail(b)[i] \in Creds /\ row[Tail(b)[i]].saved
      BY <3>2
    <3>4. v \in CleanType /\ v.at = "REQUEST" /\ v.whole /\ v.c = Head(b) /\ v.batch = Tail(b)
      <4>1. NoSecret \in SecretType
        BY DEF NoSecret, SecretType
      <4> QED  BY ZenonT(60), <3>3, <4>1 DEF Resting, CleanType
    <3> HIDE DEF v
    <3>5. \A i \in DOMAIN v.batch : row'[v.batch[i]].saved
      BY ZenonT(60), <3>3, <3>4
    <3>6. row'[v.c].saved
      BY ZenonT(60), <3>3, <3>4
    <3> QED  BY ZenonT(60), <1>0, <2>1, <2>2, <3>1, <3>4, <3>5, <3>6, StartKeeps
  <2> QED  BY ZenonT(60), <2>3, <2>4
<1>2. CASE p \notin Workers
  <2> DEFINE v == Resting(p)
  <2>1. /\ p \in Creds /\ clean[p].c = p /\ clean' = [clean EXCEPT ![p] = v]
        /\ At(p, IF clean[p].whole THEN "ENDED" ELSE "UNDO")
    BY ZenonT(60), <1>0, <1>2 DEF End, Procs, CleanInv
  <2>2. v \in CleanType /\ v.at = "IDLE" /\ v.whole /\ v.c = p /\ v.batch = <<>>
    BY ZenonT(60), <2>1, RestingIs
  <2> HIDE DEF v
  <2>3. \A i \in DOMAIN v.batch : row'[v.batch[i]].saved
    BY <2>2
  <2>4. clean' \in [Procs -> CleanType] /\ \A q \in Procs : clean'[q] = clean[q] \/ CleanInv(q)'
    BY ZenonT(60), <1>0, <1>2, <2>1, <2>2, <2>3, StartKeeps
  <2>5. \E x \in States : Moves(p, x)
    <3>1. CASE clean[p].whole
      <4>1. Moves(p, "ENDED") /\ "ENDED" \in States
        BY <2>1, <3>1 DEF At, Moves, States, Journaled
      <4> QED  BY ZenonT(60), <4>1
    <3>2. CASE ~clean[p].whole
      <4>1. row[p].saved
        BY ZenonT(60), <1>0, <2>1, <3>2 DEF CleanInv
      <4>2. Moves(p, "UNDO") /\ "UNDO" \in States
        BY <2>1, <3>2, <4>1 DEF At, Moves, States, Journaled
      <4> QED  BY ZenonT(60), <4>2
    <3> QED  BY ZenonT(60), <3>1, <3>2
  <2> QED  BY ZenonT(60), <2>1, <2>4, <2>5
<1> QED  BY ZenonT(60), <1>1, <1>2

\* A step that ends a cleanup.
LEMMA EndStep ==
  ASSUME IInv, NEW p \in Procs, End(p), Asks(clean[p].c), Removes(clean[p].c),
         UNCHANGED <<registry, due, later, pod>>, faults' \in Nat
  PROVE  IInv'
<1>1. clean[p].c \in Creds
  BY ZenonT(60) DEF IInv, Types, CleanType
<1>2. /\ \E x \in States : Moves(clean[p].c, x)
      /\ clean' \in [Procs -> CleanType] /\ \A q \in Procs : clean'[q] = clean[q] \/ CleanInv(q)'
  BY ZenonT(60), <1>1, AsksKeepsSaved, EndKeeps
<1>3. Projects(clean[p].c) /\ (UNCHANGED registry) /\ UNCHANGED <<due, later>>
  BY ZenonT(60) DEF Projects
<1> QED  BY ZenonT(60), <1>1, <1>2, <1>3, RegistryKept, RemoveStep

\* A step with which a cleanup goes on with its entry.
LEMMA WorkStep ==
  ASSUME IInv, NEW p \in Procs, NEW v \in CleanType, clean' = [clean EXCEPT ![p] = v], pub' = pub,
         v.at \notin {"IDLE", "REQUEST"},
         v.c = clean[p].c, v.whole = clean[p].whole, v.batch = clean[p].batch, row[clean[p].c].saved,
         v.at \in {"BIND", "GET", "DELETE", "COMPLETE"} => v.ref # 0 /\ ~Unborn(v.c),
         v.at = "BIND" => v.ref <= created[v.c], v.at = "DELETE" => v.seen.owned,
         v.at = "COMPLETE" => ~secret'[v.c].owned,
         Asks(clean[p].c), Removes(clean[p].c), UNCHANGED <<registry, pod>>, faults' \in Nat,
         (UNCHANGED <<due, later>>) \/ RetryLater(clean[p].c)
  PROVE  IInv'
<1> DEFINE c == clean[p].c
<1>1. Types /\ CleanInv(p) /\ clean[p] \in CleanType /\ c \in Creds /\ clean[p].batch \in Seq(Creds)
  BY ZenonT(60) DEF IInv, Types, CleanType
<1>2. \A d \in Creds : row[d].saved => row'[d].saved
  BY ZenonT(60), <1>1, AsksKeepsSaved
<1>3. /\ clean' \in [Procs -> CleanType] /\ clean'[p] = v /\ \A q \in Procs \ {p} : clean'[q] = clean[q]
  BY ZenonT(60), <1>1 DEF Types
<1>4. \A i \in DOMAIN v.batch : row'[v.batch[i]].saved
  <2>1. \A i \in DOMAIN clean[p].batch : clean[p].batch[i] \in Creds
    BY <1>1
  <2> QED  BY ZenonT(60), <1>1, <1>2, <2>1 DEF CleanInv
<1>5. flight' = flight /\ created' = created
  BY ZenonT(60) DEF Removes
<1>6. CleanInv(p)'
  <2>1. Unborn(v.c)' <=> Unborn(v.c)
    BY ZenonT(60), <1>5 DEF Unborn
  <2> QED  BY ZenonT(60), <1>1, <1>2, <1>3, <1>4, <1>5, <2>1 DEF CleanInv
<1>7. Projects(c) /\ (UNCHANGED registry) /\ Moves(c, pub[c].at)
  BY ZenonT(60), <1>1, StaysMoves DEF Projects
<1> QED  BY ZenonT(60), <1>1, <1>3, <1>6, <1>7, RegistryKept, RemoveStep

\* RequestCleanup and what a cleanup reads from the journal.
LEMMA CleanBeginKeeps ==
  ASSUME IInv, NEW p \in Procs, CleanRequest(p) \/ CleanLoad(p)
  PROVE  IInv'
<1> DEFINE c == clean[p].c
<1>0. Types /\ CleanInv(p) /\ EntryInv(c) /\ clean[p] \in CleanType /\ c \in Creds /\ faults \in Nat
  BY ZenonT(60) DEF IInv, Types, CleanType
<1>1. CASE CleanRequest(p)
  <2>0. clean[p].at = "REQUEST" /\ UNCHANGED <<registry, provider, pod, faults>>
    BY ZenonT(60), <1>1 DEF CleanRequest
  <2>1. CASE RequestCleanup(c) /\ Goes(p, "LOAD")
    <3> DEFINE v == [clean[p] EXCEPT !.at = "LOAD"]
    <3>1. /\ v \in CleanType /\ v.at = "LOAD" /\ v.c = c /\ v.whole = clean[p].whole
          /\ v.batch = clean[p].batch
      BY ZenonT(60), <1>0 DEF CleanType
    <3>2. clean' = [clean EXCEPT ![p] = v] /\ pub' = pub
      BY ZenonT(60), <2>1 DEF Goes
    <3>3. row[c].saved /\ Asks(c) /\ RetryLater(c) /\ Removes(c) /\ faults' \in Nat
      BY ZenonT(60), <1>0, <2>0, <2>1 DEF RequestCleanup, Asks, Removes, provider
    <3> HIDE DEF v
    <3>4. v.at \notin {"IDLE", "REQUEST", "BIND", "GET", "DELETE", "COMPLETE"}
      BY <3>1
    <3>5. UNCHANGED <<registry, pod>>
      BY ZenonT(60), <2>0
    <3> QED  BY ZenonT(60), <3>1, <3>2, <3>3, <3>4, <3>5, WorkStep
  <2>2. CASE ~row[c].saved /\ (UNCHANGED journal) /\ At(p, "ENDED") /\ clean' = [clean EXCEPT ![p] = Resting(p)]
    <3>1. p \notin Workers /\ clean[p].whole
      BY <1>0, <2>0, <2>2 DEF CleanInv, CleanType
    <3>2. End(p)
      BY ZenonT(60), <2>2, <3>1 DEF End
    <3>3. Asks(c) /\ Removes(c) /\ faults' \in Nat /\ UNCHANGED <<registry, due, later, pod>>
      BY ZenonT(60), <1>0, <2>0, <2>2 DEF Asks, Removes, provider, journal
    <3> QED  BY ZenonT(60), <3>2, <3>3, EndStep
  <2> QED  BY ZenonT(60), <1>1, <2>1, <2>2 DEF CleanRequest
<1>2. CASE CleanLoad(p)
  <2>0. /\ clean[p].at = "LOAD" /\ Asks(c) /\ Removes(c) /\ faults' \in Nat
        /\ (UNCHANGED <<registry, due, later, pod>>) /\ row[c].saved
    BY <1>0, <1>2 DEF CleanLoad, Asks, Removes, provider, journal, CleanInv
  <2>1. CASE End(p)
    BY ZenonT(60), <2>0, <2>1, EndStep
  <2> DEFINE y == IF row[c].uid = 0 THEN "RECOVER" ELSE "GET"
             v == [clean[p] EXCEPT !.at = y, !.ref = row[c].uid]
  <2>2. CASE pub' = pub /\ clean' = [clean EXCEPT ![p] = v]
    <3>1. y \in {"RECOVER", "GET"} /\ (y = "GET" => row[c].uid # 0) /\ row[c].uid \in Nat
      BY <1>0 DEF Types, RowType
    <3> HIDE DEF y
    <3>2. /\ v \in CleanType /\ v.at = y /\ v.c = c /\ v.whole = clean[p].whole
          /\ v.batch = clean[p].batch /\ v.ref = row[c].uid
      BY ZenonT(60), <1>0, <3>1 DEF CleanType
    <3> HIDE DEF v
    <3>3. /\ v.at \notin {"IDLE", "REQUEST", "BIND", "DELETE", "COMPLETE"}
          /\ v.at \in {"BIND", "GET", "DELETE", "COMPLETE"} => v.ref # 0
      BY <3>1, <3>2
    <3>4. v.ref # 0 => ~Unborn(v.c)
      BY ZenonT(60), <1>0, <3>2 DEF EntryInv
    <3>5. (UNCHANGED <<registry, pod>>) /\ UNCHANGED <<due, later>>
      BY ZenonT(60), <2>0
    <3> QED  BY ZenonT(60), <2>0, <2>2, <3>2, <3>3, <3>4, <3>5, WorkStep
  <2> QED  BY ZenonT(60), <1>2, <2>1, <2>2 DEF CleanLoad
<1> QED  BY ZenonT(60), <1>1, <1>2

\* Recover finds an object only where its create is over.
LEMMA CleanRecoverKeeps ==
  ASSUME IInv, NEW p \in Procs, CleanRecover(p)
  PROVE  IInv'
<1> DEFINE c == clean[p].c
           found == secret[c]
<1>0. Types /\ CleanInv(p) /\ EntryInv(c) /\ clean[p] \in CleanType /\ c \in Creds /\ faults \in Nat
  BY ZenonT(60) DEF IInv, Types, CleanType
<1>1. /\ clean[p].at = "RECOVER" /\ Asks(c) /\ Removes(c) /\ faults' \in Nat
      /\ (UNCHANGED <<registry, due, later, pod>>) /\ row[c].saved
  BY <1>0 DEF CleanRecover, Asks, Removes, provider, journal, CleanInv
<1>2. CASE End(p)
  BY ZenonT(60), <1>1, <1>2, EndStep
<1> DEFINE v == [clean[p] EXCEPT !.at = "BIND", !.ref = found.uid]
<1>3. CASE found.owned /\ pub' = pub /\ clean' = [clean EXCEPT ![p] = v]
  <2>1. found.uid \in Nat /\ found.uid # 0 /\ found.uid <= created[c] /\ ~Unborn(c)
    BY <1>0, <1>3 DEF Types, SecretType, EntryInv
  <2>2. /\ v \in CleanType /\ v.at = "BIND" /\ v.c = c /\ v.whole = clean[p].whole
        /\ v.batch = clean[p].batch /\ v.ref = found.uid
    BY ZenonT(60), <1>0, <2>1 DEF CleanType
  <2> HIDE DEF v
  <2>3. v.at \notin {"IDLE", "REQUEST", "DELETE", "COMPLETE"} /\ v.ref <= created[v.c]
    BY <2>1, <2>2
  <2>4. (UNCHANGED <<registry, pod>>) /\ UNCHANGED <<due, later>>
    BY ZenonT(60), <1>1
  <2> QED  BY ZenonT(60), <1>1, <1>3, <2>1, <2>2, <2>3, <2>4, WorkStep
<1> QED  BY ZenonT(60), <1>2, <1>3 DEF CleanRecover, Absent

\* BindSecret of a cleanup.
LEMMA CleanBindKeeps ==
  ASSUME IInv, NEW p \in Procs, CleanBind(p)
  PROVE  IInv'
<1> DEFINE c == clean[p].c
<1>0. /\ Types /\ CleanInv(p) /\ clean[p] \in CleanType /\ c \in Creds /\ clean[p].ref \in Nat
      /\ faults \in Nat /\ clean[p].batch \in Seq(Creds)
  BY ZenonT(60) DEF IInv, Types, CleanType
<1>1. /\ clean[p].at = "BIND" /\ (UNCHANGED <<registry, due, later, provider, pod, faults>>)
      /\ row[c].saved /\ clean[p].ref # 0 /\ clean[p].ref <= created[c] /\ ~Unborn(c)
  BY <1>0 DEF CleanBind, CleanInv
<1>2. CASE Bindable(c, clean[p].ref)
  <2> DEFINE v == [clean[p] EXCEPT !.at = "GET"]
  <2>1. row' = [row EXCEPT ![c].uid = clean[p].ref] /\ clean' = [clean EXCEPT ![p] = v] /\ pub' = pub
    BY ZenonT(60), <1>2 DEF CleanBind, Goes
  <2>2. /\ v \in CleanType /\ v.at = "GET" /\ v.c = c /\ v.whole = clean[p].whole
        /\ v.batch = clean[p].batch /\ v.ref = clean[p].ref
    BY ZenonT(60), <1>0 DEF CleanType
  <2> HIDE DEF v
  <2>3. clean' \in [Procs -> CleanType] /\ clean'[p] = v /\ \A q \in Procs \ {p} : clean'[q] = clean[q]
    BY ZenonT(60), <1>0, <2>1, <2>2 DEF Types
  <2>4. \A d \in Creds : row'[d].saved = row[d].saved
    <3>1. row \in [Creds -> RowType] /\ row[c] \in RowType
      BY ZenonT(60), <1>0 DEF Types
    <3>2. [row[c] EXCEPT !.uid = clean[p].ref].saved = row[c].saved
      BY ZenonT(60), <3>1 DEF RowType
    <3> QED  BY ZenonT(60), <2>1, <3>1, <3>2
  <2>5. \A d \in Creds : Unborn(d)' <=> Unborn(d)
    BY ZenonT(60), <1>1, <2>1 DEF Unborn, provider
  <2>6. \A i \in DOMAIN v.batch : row'[v.batch[i]].saved
    <3>1. \A i \in DOMAIN clean[p].batch : clean[p].batch[i] \in Creds
      BY <1>0
    <3> QED  BY ZenonT(60), <1>0, <2>2, <2>4, <3>1 DEF CleanInv
  <2>7. v.at \notin {"BIND", "DELETE", "COMPLETE"}
    BY <2>2
  <2>8. CleanInv(p)'
    BY ZenonT(60), <1>0, <1>1, <2>2, <2>3, <2>4, <2>5, <2>6, <2>7 DEF CleanInv
  <2>9. clean' \in [Procs -> CleanType] /\ \A q \in Procs : clean'[q] = clean[q] \/ CleanInv(q)'
    BY ZenonT(60), <2>3, <2>8
  <2> QED  BY ZenonT(60), <1>0, <1>1, <1>2, <2>1, <2>9, BindKeeps
<1>3. CASE ~Bindable(c, clean[p].ref)
  <2>1. End(p) /\ row' = row
    BY ZenonT(60), <1>3 DEF CleanBind
  <2>2. Asks(c) /\ Removes(c) /\ faults' \in Nat /\ UNCHANGED <<registry, due, later, pod>>
    BY ZenonT(60), <1>0, <1>1, <2>1 DEF Asks, Removes, provider
  <2> QED  BY ZenonT(60), <2>1, <2>2, EndStep
<1> QED  BY ZenonT(60), <1>2, <1>3

\* What follows a deletion.
LEMMA DeletedStep ==
  ASSUME IInv, NEW p \in Procs, Deleted(p), clean[p].at \in {"GET", "DELETE"},
         Removes(clean[p].c), ~secret'[clean[p].c].owned, UNCHANGED <<registry, journal, pod, faults>>
  PROVE  IInv'
<1> DEFINE c == clean[p].c
<1>0. /\ Types /\ CleanInv(p) /\ clean[p] \in CleanType /\ c \in Creds /\ faults \in Nat
  BY ZenonT(60) DEF IInv, Types, CleanType
<1>1. row[c].saved /\ clean[p].ref # 0 /\ ~Unborn(c)
  BY <1>0 DEF CleanInv
<1>2. /\ Asks(c) /\ faults' \in Nat /\ (UNCHANGED <<registry, due, later, pod>>)
      /\ (UNCHANGED <<registry, pod>>) /\ UNCHANGED <<due, later>>
  BY ZenonT(60), <1>0 DEF Asks, journal
<1>3. CASE clean[p].whole /\ Goes(p, "COMPLETE")
  <2> DEFINE v == [clean[p] EXCEPT !.at = "COMPLETE"]
  <2>1. /\ v \in CleanType /\ v.at = "COMPLETE" /\ v.c = c /\ v.whole = clean[p].whole
        /\ v.batch = clean[p].batch /\ v.ref = clean[p].ref
    BY ZenonT(60), <1>0 DEF CleanType
  <2>2. clean' = [clean EXCEPT ![p] = v] /\ pub' = pub
    BY ZenonT(60), <1>3 DEF Goes
  <2> HIDE DEF v
  <2>3. v.at \notin {"IDLE", "REQUEST", "BIND", "DELETE"}
    BY <2>1
  <2> QED  BY ZenonT(60), <1>1, <1>2, <2>1, <2>2, <2>3, WorkStep
<1>4. CASE ~clean[p].whole /\ At(p, "UNDO") /\ clean' = [clean EXCEPT ![p] = Resting(p)]
  <2>1. End(p)
    BY ZenonT(60), <1>0, <1>4 DEF End, CleanInv
  <2> QED  BY ZenonT(60), <1>2, <2>1, EndStep
<1> QED  BY ZenonT(60), <1>3, <1>4 DEF Deleted

\* Delete removes the object that its cleanup has seen, and goes on only when
\* there is none.
LEMMA CleanDeleteKeeps ==
  ASSUME IInv, NEW p \in Procs, CleanGet(p) \/ CleanDelete(p)
  PROVE  IInv'
<1> DEFINE c == clean[p].c
           found == secret[c]
<1>0. /\ Types /\ CleanInv(p) /\ EntryInv(c) /\ clean[p] \in CleanType /\ c \in Creds /\ faults \in Nat
      /\ secret \in [Creds -> SecretType]
  BY ZenonT(60) DEF IInv, Types, CleanType
<1>1. CASE CleanGet(p)
  <2>1. /\ clean[p].at = "GET" /\ Removes(c) /\ (UNCHANGED <<registry, journal, pod, faults>>)
        /\ secret' = secret
    BY ZenonT(60), <1>1 DEF CleanGet, Removes, provider
  <2>2. CASE found.uid = 0 /\ Gone(p)
    <3>1. ~secret'[c].owned
      BY ZenonT(60), <1>0, <2>1, <2>2 DEF EntryInv
    <3> QED  BY ZenonT(60), <2>1, <2>2, <3>1, DeletedStep DEF Gone
  <2>3. /\ Asks(c) /\ faults' \in Nat /\ (UNCHANGED <<registry, due, later, pod>>)
        /\ (UNCHANGED <<registry, pod>>) /\ UNCHANGED <<due, later>>
    BY ZenonT(60), <1>0, <2>1 DEF Asks, journal
  <2>4. CASE End(p)
    BY ZenonT(60), <2>1, <2>3, <2>4, EndStep
  <2> DEFINE v == [clean[p] EXCEPT !.at = "DELETE", !.seen = found]
  <2>5. CASE found.owned /\ pub' = pub /\ clean' = [clean EXCEPT ![p] = v]
    <3>1. /\ v \in CleanType /\ v.at = "DELETE" /\ v.c = c /\ v.whole = clean[p].whole
          /\ v.batch = clean[p].batch /\ v.ref = clean[p].ref /\ v.seen = found
      BY ZenonT(60), <1>0 DEF CleanType
    <3>2. row[c].saved /\ clean[p].ref # 0 /\ ~Unborn(c)
      BY <1>0, <2>1 DEF CleanInv
    <3> HIDE DEF v
    <3>3. v.at \notin {"IDLE", "REQUEST", "BIND", "COMPLETE"} /\ v.seen.owned
      BY <2>5, <3>1
    <3> QED  BY ZenonT(60), <2>1, <2>3, <2>5, <3>1, <3>2, <3>3, WorkStep
  <2> QED  BY ZenonT(60), <1>1, <2>2, <2>4, <2>5 DEF CleanGet
<1>2. CASE CleanDelete(p)
  <2>1. /\ clean[p].at = "DELETE" /\ UNCHANGED <<flight, created>>
        /\ (UNCHANGED <<registry, journal, pod, faults>>)
    BY ZenonT(60), <1>2 DEF CleanDelete
  <2>2. CASE secret' = [secret EXCEPT ![c] = NoSecret] /\ Deleted(p)
    <3>1. ~secret'[c].owned /\ Removes(c)
      BY <1>0, <2>1, <2>2 DEF NoSecret, Removes
    <3> QED  BY ZenonT(60), <2>1, <2>2, <3>1, DeletedStep
  <2>3. CASE secret[c].uid = 0 /\ Deleted(p) /\ secret' = secret
    <3>1. ~secret'[c].owned /\ Removes(c)
      BY ZenonT(60), <1>0, <2>1, <2>3 DEF EntryInv, Removes
    <3> QED  BY ZenonT(60), <2>1, <2>3, <3>1, DeletedStep
  <2>4. CASE End(p) /\ secret' = secret
    <3>1. Asks(c) /\ Removes(c) /\ faults' \in Nat /\ (UNCHANGED <<registry, due, later, pod>>)
      BY ZenonT(60), <1>0, <2>1, <2>4 DEF Asks, journal, Removes
    <3> QED  BY ZenonT(60), <2>4, <3>1, EndStep
  <2> QED  BY ZenonT(60), <1>2, <2>2, <2>3, <2>4 DEF CleanDelete
<1> QED  BY ZenonT(60), <1>1, <1>2

\* CompleteCleanup closes the entry of an object that is gone; a call that
\* fails closes nothing.
LEMMA CleanEndKeeps ==
  ASSUME IInv, NEW p \in Procs, CleanComplete(p) \/ CleanFails(p)
  PROVE  IInv'
<1> DEFINE c == clean[p].c
<1>0. /\ Types /\ CleanInv(p) /\ clean[p] \in CleanType /\ c \in Creds /\ faults \in Nat
  BY ZenonT(60) DEF IInv, Types, CleanType
<1>1. CASE CleanComplete(p)
  <2>1. /\ clean[p].at = "COMPLETE" /\ End(p) /\ UNCHANGED <<registry, due, later, provider, pod, faults>>
        /\ row' = IF row[c].uid = clean[p].ref /\ row[c].requested
                  THEN [row EXCEPT ![c].cleaned = TRUE] ELSE row
    BY ZenonT(60), <1>1 DEF CleanComplete
  <2>2. clean[p].ref # 0 /\ ~secret[c].owned /\ secret' = secret
    BY <1>0, <2>1 DEF CleanInv, provider
  <2>3. Asks(c) /\ Removes(c) /\ faults' \in Nat /\ (UNCHANGED <<registry, due, later, pod>>)
    BY ZenonT(60), <1>0, <2>1, <2>2 DEF Asks, Removes, provider
  <2> QED  BY ZenonT(60), <2>1, <2>3, EndStep
<1>2. CASE CleanFails(p)
  <2>1. /\ End(p) /\ faults' \in Nat /\ Asks(c) /\ Removes(c) /\ (UNCHANGED <<registry, due, later, pod>>)
    BY ZenonT(60), <1>2, FaultIs DEF CleanFails, Asks, Removes, provider, journal
  <2> QED  BY ZenonT(60), <2>1, EndStep
<1> QED  BY ZenonT(60), <1>1, <1>2

\* A pass takes entries of the journal.
LEMMA SweepKeeps ==
  ASSUME IInv, NEW w \in Workers, Sweep(w) \/ SweepEnds(w)
  PROVE  IInv'
<1>0. /\ Types /\ Places /\ faults \in Nat /\ w \in Procs /\ w \notin Creds /\ due \in Seq(Creds)
      /\ UNCHANGED <<registry, journal, provider, pub, pod>>
  BY ZenonT(60), DeliveryAssumption DEF IInv, Types, Sweep, SweepEnds, Procs
<1>1. PICK c \in Creds : TRUE
  BY ZenonT(60), AnyCredIs
<1>2. /\ Moves(c, pub[c].at) /\ Asks(c) /\ Projects(c) /\ (UNCHANGED provider) /\ (UNCHANGED registry)
      /\ (UNCHANGED <<due, later>>) /\ row' = row
  BY ZenonT(60), <1>0, StaysMoves DEF Asks, Projects, journal
<1>3. SUFFICES ASSUME NEW v \in CleanType, clean' = [clean EXCEPT ![w] = v],
                      v.at \in {"IDLE", "REQUEST"}, v.whole, v.at # "IDLE" => row[v.c].saved,
                      \A i \in DOMAIN v.batch : row[v.batch[i]].saved, faults' \in Nat
               PROVE  IInv'
  <2>1. CASE SweepEnds(w)
    <3> DEFINE v == Resting(AnyCred)
    <3>1. clean' = [clean EXCEPT ![w] = v] /\ faults' \in Nat
      BY ZenonT(60), <2>1, FaultIs DEF SweepEnds
    <3>2. v \in CleanType /\ v.at = "IDLE" /\ v.whole /\ v.batch = <<>>
      BY ZenonT(60), RestingIs, AnyCredIs
    <3> HIDE DEF v
    <3>3. \A i \in DOMAIN v.batch : row[v.batch[i]].saved
      BY <3>2
    <3> QED  BY ZenonT(60), <1>3, <3>1, <3>2, <3>3
  <2>2. CASE Sweep(w)
    <3>1. PICK n \in 1..Limit : \E at \in [1..n -> DOMAIN due] :
            clean' = [clean EXCEPT ![w] = [Resting(due[at[1]]) EXCEPT
              !.at = "REQUEST", !.batch = [k \in 1..n - 1 |-> due[at[k + 1]]]]]
      BY ZenonT(60), <2>2 DEF Sweep
    <3>2. PICK at \in [1..n -> DOMAIN due] :
            clean' = [clean EXCEPT ![w] = [Resting(due[at[1]]) EXCEPT
              !.at = "REQUEST", !.batch = [k \in 1..n - 1 |-> due[at[k + 1]]]]]
      BY ZenonT(60), <3>1
    <3> DEFINE b == [k \in 1..n - 1 |-> due[at[k + 1]]]
               v == [Resting(due[at[1]]) EXCEPT !.at = "REQUEST", !.batch = b]
    <3>3. \A i \in DOMAIN due : due[i] \in Creds /\ due[i] \in Range(due) /\ row[due[i]].saved
      <4>1. \A i \in DOMAIN due : due[i] \in Creds /\ due[i] \in Range(due)
        BY <1>0 DEF Range
      <4> QED  BY ZenonT(60), <1>0, <4>1 DEF Places
    <3>4. n \in Nat /\ 1 \in 1..n /\ n - 1 \in Nat /\ \A k \in 1..n - 1 : k + 1 \in 1..n
      BY DeliveryAssumption
    <3>5. at[1] \in DOMAIN due /\ \A k \in 1..n - 1 : at[k + 1] \in DOMAIN due
      BY ZenonT(60), <3>4
    <3>6. b \in Seq(Creds) /\ DOMAIN b = 1..n - 1 /\ \A k \in 1..n - 1 : row[b[k]].saved
      BY <3>3, <3>4, <3>5
    <3> HIDE DEF b
    <3>7. /\ v \in CleanType /\ v.at = "REQUEST" /\ v.whole /\ v.c = due[at[1]] /\ v.batch = b
      <4>1. NoSecret \in SecretType /\ due[at[1]] \in Creds
        BY <3>3, <3>5 DEF NoSecret, SecretType
      <4> QED  BY ZenonT(60), <3>6, <4>1 DEF Resting, CleanType
    <3>8. clean' = [clean EXCEPT ![w] = v] /\ faults' \in Nat
      BY ZenonT(60), <1>0, <2>2, <3>2 DEF b, Sweep
    <3> HIDE DEF v
    <3> QED  BY ZenonT(60), <1>3, <3>3, <3>5, <3>6, <3>7, <3>8
  <2> QED  BY ZenonT(60), <2>1, <2>2
<1>4. clean' \in [Procs -> CleanType] /\ \A p \in Procs : clean'[p] = clean[p] \/ CleanInv(p)'
  BY ZenonT(60), <1>0, <1>2, <1>3, StartKeeps
<1> QED  BY ZenonT(60), <1>2, <1>3, <1>4, MoveStep, RegistryKept

-----------------------------------------------------------------------------
(* The rest of the system *)

\* The Pod, the registry and the requests of cleanups by others.
LEMMA AskedKeeps ==
  ASSUME IInv, NEW c \in Creds, Mount(c) \/ Consume(c) \/ Expire(c) \/ Fence(c) \/ Suspend(c)
  PROVE  IInv'
<1>0. /\ Types /\ EntryInv(c) /\ faults \in Nat /\ clean' = clean /\ pub' = pub /\ (UNCHANGED provider)
      /\ faults' = faults
  BY ZenonT(60) DEF IInv, Types, Mount, Consume, Expire, Fence, Suspend
<1>1. Moves(c, pub[c].at)
  BY ZenonT(60), <1>0, StaysMoves
<1>2. clean' \in [Procs -> CleanType] /\ \A p \in Procs : clean'[p] = clean[p] \/ CleanInv(p)'
  BY ZenonT(60), <1>0 DEF Types
<1>3. /\ cred' \in [Creds -> {"NONE", "PENDING", "CONSUMED"}]
      /\ expired' \in [Creds -> BOOLEAN] /\ fenced' \in [Creds -> BOOLEAN]
  <2>1. CASE Mount(c) \/ Suspend(c)
    BY ZenonT(60), <2>1, RegistryKept DEF Mount, Suspend
  <2>2. CASE Consume(c)
    BY ZenonT(60), <1>0, <2>2 DEF Consume, Types
  <2>3. CASE Expire(c) \/ Fence(c)
    BY ZenonT(60), <1>0, <2>3 DEF Expire, Fence, Types
  <2> QED  BY ZenonT(60), <2>1, <2>2, <2>3
<1>4. Projects(c)
  <2>1. CASE Mount(c)
    <3>1. row[c].uid # 0
      BY <1>0, <2>1 DEF Mount, EntryInv
    <3> QED  BY ZenonT(60), <2>1, <3>1 DEF Mount, Projects
  <2>2. CASE ~Mount(c)
    BY ZenonT(60), <2>2 DEF Consume, Expire, Fence, Suspend, Projects
  <2> QED  BY ZenonT(60), <2>1, <2>2
<1>5. Asks(c) /\ ((UNCHANGED <<due, later>>) \/ (row[c].saved /\ (RetryLater(c) \/ RetryNow(c))))
  BY ZenonT(60) DEF Mount, Consume, Expire, Fence, Suspend, Asks, journal
<1> QED  BY ZenonT(60), <1>0, <1>1, <1>2, <1>3, <1>4, <1>5, MoveStep

\* An entry that falls due changes its place.
LEMMA ElapseKeeps ==
  ASSUME IInv, Elapse
  PROVE  IInv'
<1>0. /\ Types /\ Places /\ later # <<>> /\ due' = Append(due, Head(later)) /\ later' = Tail(later)
      /\ (UNCHANGED <<registry, row, provider, pub, clean, pod, faults>>)
      /\ due \in Seq(Creds) /\ later \in Seq(Creds)
  BY ZenonT(60) DEF IInv, Types, Elapse
<1>1. PICK h \in Creds, q \in Seq(Creds) : h = Head(later) /\ q = Tail(later)
  <2>1. Head(later) \in Creds /\ Tail(later) \in Seq(Creds)
    BY <1>0
  <2> QED  BY ZenonT(60), <2>1
<1>2. IsInjective(q) /\ Range(later) = Range(q) \cup {h} /\ h \notin Range(q)
  <2>1. /\ Len(q) \in Nat /\ Len(later) = Len(q) + 1 /\ DOMAIN later = 1..Len(later) /\ DOMAIN q = 1..Len(q)
        /\ later[1] = h /\ \A i \in 1..Len(q) : q[i] = later[i + 1]
    BY <1>0, <1>1
  <2>2. \A i \in 1..Len(later), j \in 1..Len(later) : later[i] = later[j] => i = j
    BY ZenonT(60), <1>0, <2>1 DEF Places, IsInjective
  <2>3. IsInjective(q)
    BY <2>1, <2>2 DEF IsInjective
  <2>4. h \notin Range(q)
    BY <2>1, <2>2 DEF Range
  <2>5. Range(q) \cup {h} \subseteq Range(later)
    BY <2>1 DEF Range
  <2>6. ASSUME NEW i \in 1..Len(later) PROVE later[i] \in Range(q) \cup {h}
    <3>1. CASE i = 1
      BY <2>1, <3>1
    <3>2. CASE i # 1
      <4>1. i - 1 \in 1..Len(q) /\ later[i] = q[i - 1]
        BY <2>1, <3>2
      <4> QED  BY <2>1, <4>1 DEF Range
    <3> QED  BY ZenonT(60), <3>1, <3>2
  <2>7. Range(later) \subseteq Range(q) \cup {h}
    BY ZenonT(60), <2>1, <2>6 DEF Range
  <2> QED  BY ZenonT(60), <2>3, <2>4, <2>5, <2>7
<1>3. h \notin Range(due)
  BY ZenonT(60), <1>0, <1>2 DEF Places
<1>4. /\ due' \in Seq(Creds) /\ IsInjective(due') /\ Range(due') = Range(due) \cup {h}
      /\ later' = q /\ row' = row
  BY ZenonT(60), <1>0, <1>1, <1>3, AppendPlaces DEF Places
<1>5. Places'
  BY ZenonT(60), <1>0, <1>2, <1>3, <1>4 DEF Places
<1>6. /\ row' = row /\ secret' = secret /\ flight' = flight /\ created' = created /\ pub' = pub
      /\ clean' = clean /\ pod' = pod /\ faults' = faults
  BY ZenonT(60), <1>0 DEF provider
<1>7. Types'
  BY ZenonT(60), <1>0, <1>1, <1>4, <1>6, RegistryKept DEF Types
<1>8. \A c \in Creds : EntryInv(c)'
  BY ZenonT(60), <1>6 DEF IInv, EntryInv, Unborn, NoRow
<1>9. \A p \in Procs : CleanInv(p)'
  BY ZenonT(60), <1>6 DEF IInv, CleanInv, Unborn
<1> QED  BY ZenonT(60), <1>5, <1>7, <1>8, <1>9 DEF IInv

\* The provider alone: a late create finds an entry that is still open, and
\* nobody else makes an object of the credential.
LEMMA ProviderKeeps ==
  ASSUME IInv, NEW c \in Creds, Arrive(c) \/ Outside(c)
  PROVE  IInv'
<1>0. /\ Types /\ Places /\ EntryInv(c) /\ UNCHANGED <<registry, journal, pub, clean, pod>>
      /\ secret \in [Creds -> SecretType] /\ secret[c] \in SecretType
      /\ created \in [Creds -> Nat] /\ created[c] \in Nat
  BY ZenonT(60) DEF IInv, Types, Arrive, Outside
<1>1. faults' \in Nat /\ flight' \subseteq flight /\ \A d \in Creds \ {c} : d \in flight' <=> d \in flight
  BY <1>0, FaultIs DEF Arrive, Outside, Types
<1>2. row' = row /\ due' = due /\ later' = later /\ pub' = pub /\ clean' = clean /\ pod' = pod
  BY ZenonT(60), <1>0 DEF journal
<1>3. PICK v \in SecretType, n \in Nat :
        /\ secret' = [secret EXCEPT ![c] = v] /\ created' = [created EXCEPT ![c] = n]
        /\ created[c] <= n /\ v.uid <= n
        /\ v.owned => v.uid # 0 /\ (secret[c].owned \/ (c \in flight /\ c \notin flight'))
  <2>1. secret[c].uid \in Nat /\ secret[c].owned \in BOOLEAN /\ secret[c].uid <= created[c]
    BY <1>0 DEF SecretType, EntryInv
  <2>2. CASE Arrive(c) /\ secret' = [secret EXCEPT ![c] = Fresh(c)] /\ created' = [created EXCEPT ![c] = @ + 1]
    <3>1. /\ Fresh(c) \in SecretType /\ Fresh(c).uid # 0 /\ created[c] + 1 \in Nat
          /\ created[c] <= created[c] + 1 /\ Fresh(c).uid <= created[c] + 1
      BY <1>0 DEF Fresh, SecretType
    <3>2. c \in flight /\ c \notin flight'
      BY ZenonT(60), <2>2 DEF Arrive
    <3> QED  BY ZenonT(60), <2>2, <3>1, <3>2
  <2>3. CASE UNCHANGED <<secret, created>>
    <3>1. secret' = [secret EXCEPT ![c] = secret[c]] /\ created' = [created EXCEPT ![c] = created[c]]
      BY ZenonT(60), <1>0, <2>3
    <3>2. created[c] <= created[c]
      BY <1>0
    <3> QED  BY ZenonT(60), <1>0, <2>1, <3>1, <3>2 DEF EntryInv
  <2>4. CASE Outside(c) /\ secret' = [secret EXCEPT ![c] = NoSecret] /\ UNCHANGED created
    <3>1. NoSecret \in SecretType /\ NoSecret.uid = 0 /\ ~NoSecret.owned
      BY DEF NoSecret, SecretType
    <3>2. created' = [created EXCEPT ![c] = created[c]]
      BY ZenonT(60), <1>0, <2>4
    <3>3. created[c] <= created[c] /\ 0 <= created[c]
      BY <1>0
    <3> QED  BY ZenonT(60), <1>0, <2>4, <3>1, <3>2, <3>3
  <2>5. CASE Outside(c) /\ secret' = [secret EXCEPT ![c].owned = FALSE] /\ UNCHANGED created
    <3>1. /\ [secret[c] EXCEPT !.owned = FALSE] \in SecretType /\ ~[secret[c] EXCEPT !.owned = FALSE].owned
          /\ [secret[c] EXCEPT !.owned = FALSE].uid = secret[c].uid
      BY ZenonT(60), <1>0 DEF SecretType
    <3>2. /\ created' = [created EXCEPT ![c] = created[c]]
          /\ secret' = [secret EXCEPT ![c] = [secret[c] EXCEPT !.owned = FALSE]]
      BY ZenonT(60), <1>0, <2>5
    <3>3. created[c] <= created[c]
      BY <1>0
    <3> QED  BY ZenonT(60), <1>0, <2>1, <3>1, <3>2, <3>3
  <2>6. CASE /\ secret' = [secret EXCEPT ![c] = [Fresh(c) EXCEPT !.owned = FALSE]]
             /\ created' = [created EXCEPT ![c] = @ + 1]
    <3>1. created[c] + 1 \in Nat /\ created[c] <= created[c] + 1 /\ created[c] + 1 <= created[c] + 1
      BY <1>0
    <3>2. /\ [Fresh(c) EXCEPT !.owned = FALSE] \in SecretType /\ ~[Fresh(c) EXCEPT !.owned = FALSE].owned
          /\ [Fresh(c) EXCEPT !.owned = FALSE].uid = created[c] + 1
      BY ZenonT(60), <3>1 DEF Fresh, SecretType
    <3> QED  BY ZenonT(60), <2>6, <3>1, <3>2
  <2> QED  BY ZenonT(60), <2>2, <2>3, <2>4, <2>5, <2>6 DEF Arrive, Outside
<1>4. /\ secret' \in [Creds -> SecretType] /\ secret'[c] = v /\ created' \in [Creds -> Nat] /\ created'[c] = n
      /\ \A d \in Creds \ {c} : secret'[d] = secret[d] /\ created'[d] = created[d]
  BY ZenonT(60), <1>0, <1>3
<1>5. Types' /\ Places'
  <2>1. flight' \subseteq Creds
    BY ZenonT(60), <1>0, <1>1 DEF Types
  <2> QED  BY ZenonT(60), <1>0, <1>1, <1>2, <1>4, <2>1, RegistryKept DEF Types, Places
<1>6. Unborn(c)' => Unborn(c)
  BY ZenonT(60), <1>1, <1>2 DEF Unborn
<1>7. v.owned => secret[c].owned \/ (Unborn(c) /\ ~Unborn(c)')
  <2>1. ASSUME c \in flight, c \notin flight' PROVE Unborn(c) /\ ~Unborn(c)'
    BY <1>0, <1>2, <2>1 DEF Unborn, EntryInv
  <2> QED  BY ZenonT(60), <1>3, <2>1
<1>8. Grows(c)
  BY ZenonT(60), <1>2, <1>3, <1>4, <1>6, <1>7 DEF Grows
<1>9. EntryInv(c)'
  <2>1. /\ row[c].uid <= n /\ pub[c].ref <= n
    <3>1. row[c].uid \in Nat /\ pub[c].ref \in Nat
      BY <1>0 DEF Types, RowType, PubType
    <3> QED  BY <1>0, <1>3, <3>1 DEF EntryInv
  <2>2. v.owned => row[c].saved /\ ~row[c].cleaned
    BY <1>0, <1>3 DEF EntryInv, Unborn
  <2>3. ASSUME Unborn(c)' PROVE ~v.owned /\ row[c].uid = 0
    BY ZenonT(60), <1>0, <1>6, <1>7, <2>3 DEF EntryInv
  <2>4. c \in flight' => c \in flight
    BY ZenonT(60), <1>1
  <2> QED  BY ZenonT(60), <1>0, <1>2, <1>3, <1>4, <2>1, <2>2, <2>3, <2>4 DEF EntryInv, NoRow
<1>10. \A d \in Creds \ {c} : Same(d)
  BY ZenonT(60), <1>1, <1>2, <1>4 DEF Same
<1> QED  BY ZenonT(60), <1>2, <1>5, <1>8, <1>9, <1>10, StepKeeps

-----------------------------------------------------------------------------
(* The theorems *)

\* The abandoned entries are due in some order, and nothing has an object.
LEMMA InitKeeps == Init => IInv
<1> SUFFICES ASSUME Init PROVE IInv
  OBVIOUS
<1>1. due \in Seq(Creds) /\ IsInjective(due) /\ Range(due) = Abandoned
  <2>1. PICK n \in Nat : n = Cardinality(Abandoned)
    BY ZenonT(60), DeliveryAssumption
  <2>2. due \in Bijection(1..n, Abandoned)
    BY ZenonT(60), <2>1 DEF Init
  <2>3. /\ due \in [1..n -> Abandoned] /\ (\A t \in Abandoned : \E i \in 1..n : due[i] = t)
        /\ IsInjective(due)
    BY ZenonT(60), <2>2 DEF Bijection, Injection, Surjection, IsInjective
  <2>4. due \in Seq(Creds)
    BY <2>3, DeliveryAssumption
  <2>5. DOMAIN due = 1..n
    BY ZenonT(60), <2>3
  <2>6. Range(due) = Abandoned
    BY ZenonT(60), <2>3, <2>5 DEF Range
  <2> QED  BY ZenonT(60), <2>3, <2>4, <2>6
<1>2. later \in Seq(Creds) /\ IsInjective(later) /\ Range(later) = {}
  <2>1. later = <<>>
    BY ZenonT(60) DEF Init
  <2>2. <<>> \in Seq(Creds) /\ DOMAIN <<>> = {}
    OBVIOUS
  <2> QED  BY ZenonT(60), <2>1, <2>2 DEF IsInjective, Range
<1> DEFINE r == [NoRow EXCEPT !.saved = TRUE, !.requested = TRUE]
<1>0. /\ NoRow \in RowType /\ ~NoRow.saved /\ NoRow.uid = 0 /\ ~NoRow.cleaned
      /\ r \in RowType /\ r.saved /\ r.uid = 0 /\ ~r.cleaned
  <2>1. NoRow \in RowType /\ ~NoRow.saved /\ NoRow.uid = 0 /\ ~NoRow.cleaned
    BY DEF NoRow, RowType
  <2>2. r.saved /\ r.uid = NoRow.uid /\ r.cleaned = NoRow.cleaned /\ r \in RowType
    BY ZenonT(60), <2>1 DEF RowType
  <2> QED  BY ZenonT(60), <2>1, <2>2
<1> HIDE DEF r
<1>3. row = [c \in Creds |-> IF c \in Abandoned THEN r ELSE NoRow]
  BY ZenonT(60) DEF Init, r
<1>4. Places
  <2>1. \A c \in Creds : row[c].saved <=> c \in Abandoned
    BY ZenonT(60), <1>0, <1>3
  <2> QED  BY ZenonT(60), <1>1, <1>2, <2>1 DEF Places
<1>5. \A p \in Procs : \E c \in Creds : clean[p] = Resting(c) /\ (p \in Creds => c = p)
  BY ZenonT(60), AnyCredIs DEF Init
<1>6. Types
  <2>1. row \in [Creds -> RowType]
    BY ZenonT(60), <1>0, <1>3
  <2>2. secret \in [Creds -> SecretType]
    BY DEF Init, NoSecret, SecretType
  <2>3. pub \in [Creds -> PubType]
    BY DEF Init, PubType, States
  <2>4. clean \in [Procs -> CleanType]
    <3>1. ASSUME NEW p \in Procs PROVE clean[p] \in CleanType
      <4>1. PICK c \in Creds : clean[p] = Resting(c)
        BY ZenonT(60), <1>5
      <4> QED  BY ZenonT(60), <4>1, RestingIs
    <3>2. clean = [p \in Procs |-> clean[p]]
      BY ZenonT(60) DEF Init
    <3> QED  BY ZenonT(60), <3>1, <3>2
  <2>5. expired \in [Creds -> BOOLEAN] /\ fenced \in [Creds -> BOOLEAN]
    <3>1. expired = [c \in Creds |-> c \in Abandoned] /\ fenced = expired
      BY ZenonT(60) DEF Init
    <3> QED  BY <3>1
  <2>6. cred \in [Creds -> {"NONE", "PENDING", "CONSUMED"}] /\ pod \in [Creds -> {"NO", "YES", "HELD"}]
    BY ZenonT(60) DEF Init
  <2>7. flight \subseteq Creds /\ created \in [Creds -> Nat] /\ faults \in Nat
    BY DEF Init
  <2> QED  BY ZenonT(60), <1>1, <1>2, <2>1, <2>2, <2>3, <2>4, <2>5, <2>6, <2>7 DEF Types
<1>7. ASSUME NEW c \in Creds PROVE EntryInv(c)
  <2>1. ~row[c].cleaned /\ row[c].uid = 0 /\ (row[c].saved \/ row[c] = NoRow)
    BY ZenonT(60), <1>0, <1>3
  <2>2. secret[c] = NoSecret /\ created[c] = 0 /\ pod[c] = "NO" /\ flight = {}
        /\ pub[c] = [at |-> IF c \in Abandoned THEN "ENDED" ELSE "IDLE", ref |-> 0]
    BY ZenonT(60) DEF Init
  <2>3. ~secret[c].owned /\ secret[c].uid = 0 /\ pub[c].ref = 0 /\ pub[c].at \in {"ENDED", "IDLE"}
    BY <2>2 DEF NoSecret
  <2> QED  BY <2>1, <2>2, <2>3 DEF EntryInv, Journaled
<1>8. ASSUME NEW p \in Procs PROVE CleanInv(p)
  <2>1. PICK c \in Creds : clean[p] = Resting(c) /\ (p \in Creds => c = p)
    BY ZenonT(60), <1>5
  <2>2. clean[p].at = "IDLE" /\ clean[p].c = c /\ clean[p].whole /\ clean[p].batch = <<>>
    BY ZenonT(60), <2>1, RestingIs
  <2> QED  BY <2>1, <2>2 DEF CleanInv
<1> QED  BY ZenonT(60), <1>4, <1>6, <1>7, <1>8 DEF IInv

\* A step that changes nothing.
LEMMA StutterKeeps ==
  ASSUME IInv, UNCHANGED vars
  PROVE  IInv'
<1>1. /\ cred' = cred /\ expired' = expired /\ fenced' = fenced /\ row' = row /\ due' = due /\ later' = later
      /\ secret' = secret /\ flight' = flight /\ created' = created /\ pub' = pub
      /\ clean' = clean /\ pod' = pod /\ faults' = faults
  BY ZenonT(60) DEF vars, registry, journal, provider
<1>2. Types' /\ Places'
  BY ZenonT(60), <1>1 DEF IInv, Types, Places
<1>3. \A c \in Creds : EntryInv(c)'
  BY ZenonT(60), <1>1 DEF IInv, EntryInv, Unborn, NoRow
<1>4. \A p \in Procs : CleanInv(p)'
  BY ZenonT(60), <1>1 DEF IInv, CleanInv, Unborn
<1> QED  BY ZenonT(60), <1>2, <1>3, <1>4 DEF IInv

\* IInv is inductive.
LEMMA NextKeeps == IInv /\ [Next]_vars => IInv'
<1> SUFFICES ASSUME IInv, [Next]_vars PROVE IInv'
  OBVIOUS
<1>1. CASE UNCHANGED vars
  BY ZenonT(60), <1>1, StutterKeeps
<1>2. ASSUME NEW c \in Creds, Issue(c) \/ PublishStep(c) \/ CreateLost(c) \/ PublishFails(c) \/ Crash(c)
      PROVE  IInv'
  BY ZenonT(60), <1>2, PublishKeeps, SavePlanKeeps, CreateKeeps, CreateLostKeeps, CheckAfterKeeps,
     BindPublishedKeeps, UndoKeeps, CrashKeeps DEF PublishStep
<1>3. ASSUME NEW c \in Creds, Environment(c) PROVE IInv'
  BY ZenonT(60), <1>3, AskedKeeps, ProviderKeeps DEF Environment
<1>4. ASSUME NEW w \in Workers, Sweep(w) \/ SweepEnds(w) PROVE IInv'
  BY ZenonT(60), <1>4, SweepKeeps
<1>5. ASSUME NEW p \in Procs, CleanStep(p) \/ CleanFails(p) PROVE IInv'
  BY ZenonT(60), <1>5, CleanBeginKeeps, CleanRecoverKeeps, CleanBindKeeps, CleanDeleteKeeps, CleanEndKeeps DEF CleanStep
<1>6. CASE Elapse
  BY ZenonT(60), <1>6, ElapseKeeps
<1> QED  BY ZenonT(60), <1>1, <1>2, <1>3, <1>4, <1>5, <1>6 DEF Next

\* The inductive invariant holds in every reachable state.
THEOREM JournalIsInductive == Spec => []IInv
  BY InitKeeps, NextKeeps, PTL DEF Spec

\* Whatever crashes, loses an answer, arrives late or is cleaned up early, the
\* journal leads to every Secret that a materialization made or may still make,
\* with one place in the order of the sweeps, and to the uid of every Secret
\* that a sandbox was given.
THEOREM DeliveryInvariant == Spec => []DeliveryInv
<1>1. IInv => DeliveryInv
  <2> SUFFICES ASSUME IInv PROVE DeliveryInv
    OBVIOUS
  <2>1. Types /\ Places
    BY ZenonT(60) DEF IInv
  <2>2. ASSUME NEW c \in Creds
        PROVE  /\ cred[c] \in {"NONE", "PENDING", "CONSUMED"} /\ pod[c] \in {"NO", "YES", "HELD"}
               /\ {row[c].uid, secret[c].uid, pub[c].ref} \subseteq 0..created[c]
               /\ row[c].cleaned => row[c].requested
               /\ IF row[c].saved THEN \E i \in DOMAIN queue : \A j \in DOMAIN queue : queue[j] = c <=> j = i
                  ELSE row[c] = NoRow /\ c \notin Range(queue)
               /\ Ours(c) \/ c \in flight => row[c].saved /\ ~row[c].cleaned
               /\ pod[c] # "NO" => row[c].uid # 0
    <3>1. EntryInv(c) /\ row[c] \in RowType /\ secret[c] \in SecretType /\ pub[c] \in PubType /\ created[c] \in Nat
      BY ZenonT(60), <2>1 DEF IInv, Types
    <3>2. row[c].uid \in Nat /\ secret[c].uid \in Nat /\ pub[c].ref \in Nat
      BY ZenonT(60), <3>1 DEF RowType, SecretType, PubType
    <3>3. {row[c].uid, secret[c].uid, pub[c].ref} \subseteq 0..created[c]
      BY <3>1, <3>2 DEF EntryInv
    <3>4. cred[c] \in {"NONE", "PENDING", "CONSUMED"} /\ pod[c] \in {"NO", "YES", "HELD"}
      BY ZenonT(60), <2>1 DEF Types
    <3>5. c \in flight => row[c].saved /\ ~row[c].cleaned
      BY ZenonT(60), <3>1 DEF EntryInv, Unborn
    <3>6. IF row[c].saved THEN \E i \in DOMAIN queue : \A j \in DOMAIN queue : queue[j] = c <=> j = i
          ELSE c \notin Range(queue)
      BY ZenonT(60), <2>1, OnePlace
    <3> QED  BY ZenonT(60), <3>1, <3>3, <3>4, <3>5, <3>6 DEF EntryInv, Ours
  <2>3. ASSUME NEW p \in Procs PROVE clean[p].c \in Creds /\ (p \in Creds => clean[p].c = p)
    <3>1. CleanInv(p) /\ clean[p] \in CleanType
      BY ZenonT(60), <2>1 DEF IInv, Types
    <3> QED  BY ZenonT(60), <3>1 DEF CleanInv, CleanType
  <2> QED  BY ZenonT(60), <2>2, <2>3 DEF DeliveryInv, TypeOK, NoOrphanedSecret, ProjectedIsBound
<1> QED  BY <1>1, JournalIsInductive, PTL

\* An object that someone else edited or put under the name of a Secret is
\* touched by them alone: Create accepts it or not, a late create finds the
\* name taken, and Delete names the version it has seen.
THEOREM DeletionIsExact == Spec => DeletesExactly
<1>1. ASSUME IInv, [Next]_vars, NEW c \in Creds, secret[c].uid # 0, ~Ours(c), secret'[c] # secret[c]
      PROVE  Outside(c)
  <2>0. secret \in [Creds -> SecretType]
    BY ZenonT(60), <1>1 DEF IInv, Types
  <2>1. CASE secret' = secret
    BY ZenonT(60), <1>1, <2>1
  <2>2. ASSUME NEW d \in Creds, Create(d) PROVE FALSE
    BY ZenonT(60), <1>1, <2>0, <2>2 DEF Create
  <2>3. ASSUME NEW d \in Creds, Arrive(d) PROVE FALSE
    BY ZenonT(60), <1>1, <2>0, <2>3 DEF Arrive
  <2>4. ASSUME NEW d \in Creds, Outside(d) PROVE Outside(c)
    <3>1. \A e \in Creds \ {d} : secret'[e] = secret[e]
      BY ZenonT(60), <2>0, <2>4 DEF Outside
    <3> QED  BY ZenonT(60), <1>1, <2>4, <3>1
  <2>5. ASSUME NEW p \in Procs, CleanDelete(p) PROVE FALSE
    <3>1. clean[p].at = "DELETE" /\ clean[p].seen.owned
      BY ZenonT(60), <1>1, <2>5 DEF CleanDelete, IInv, CleanInv
    <3>2. SameObject(p) /\ secret' = [secret EXCEPT ![clean[p].c] = NoSecret]
      BY ZenonT(60), <1>1, <2>5 DEF CleanDelete
    <3>3. c = clean[p].c
      BY ZenonT(60), <1>1, <2>0, <3>2
    <3> QED  BY ZenonT(60), <1>1, <3>1, <3>2, <3>3 DEF SameObject, Ours
  <2>6. ASSUME NEW d \in Creds,
               \/ Issue(d) \/ CreateLost(d) \/ PublishFails(d) \/ Crash(d)
               \/ PublishStep(d) /\ ~Create(d)
        PROVE  secret' = secret
    BY ZenonT(60), <2>6 DEF Issue, CreateLost, PublishFails, Crash, PublishStep, Authorize, SavePlan, LoadDelivery,
       CheckBefore, CheckAfter, BindPublished, Confirm, Resolve, Project, Undo, provider
  <2>7. ASSUME NEW d \in Creds, Environment(d), ~Arrive(d), ~Outside(d) PROVE secret' = secret
    BY ZenonT(60), <2>7 DEF Environment, Mount, Consume, Expire, Fence, Suspend, provider
  <2>8. ASSUME NEW p \in Procs, CleanStep(p) \/ CleanFails(p), ~CleanDelete(p) PROVE secret' = secret
    BY ZenonT(60), <2>8 DEF CleanStep, CleanFails, CleanRequest, CleanLoad, CleanRecover, CleanBind, CleanGet,
       CleanComplete, provider
  <2>9. ASSUME NEW w \in Workers, Sweep(w) \/ SweepEnds(w) PROVE secret' = secret
    BY ZenonT(60), <2>9 DEF Sweep, SweepEnds, provider
  <2>10. CASE Elapse \/ UNCHANGED vars
    <3>1. secret' = secret
      BY ZenonT(60), <2>10 DEF Elapse, vars, provider
    <3> QED  BY ZenonT(60), <2>1, <3>1
  <2> QED  BY ZenonT(60), <1>1, <2>1, <2>2, <2>3, <2>4, <2>5, <2>6, <2>7, <2>8, <2>9, <2>10 DEF Next
<1>2. IInv /\ [Next]_vars =>
        [\A c \in Creds : secret[c].uid # 0 /\ ~Ours(c) /\ secret'[c] # secret[c] => Outside(c)]_vars
  BY ZenonT(60), <1>1
<1> QED  BY <1>2, JournalIsInductive, PTL DEF Spec, DeletesExactly
=============================================================================
